---- MODULE Spec2Model ----
(***************************************************************************)
(* steam-download-monitor: the log state engine (parser.py LogParser), the *)
(* active-game resolver (game_finder.py GameFinder) and the change handler *)
(* (monitor.py LogHandler), as state machines.                             *)
(*                                                                         *)
(* The log file is a sequence of lines; a line is the record of what the   *)
(* regular expressions of parser.py extract from it.  A line counts one    *)
(* unit of file size, so the cursor last_pos is a number of lines (a line  *)
(* written in two chunks counts two).                                      *)
(* Times are whole seconds.                                                *)
(***************************************************************************)
EXTENDS Integers, Sequences, FiniteSets, TLC

VARIABLES
    now,            \* wall clock, dt.datetime.now()
    ticks,          \* number of clock advances so far (bounded)
    writes,         \* number of writes to the log so far (bounded)
    file,           \* content of content_log.txt, a sequence of lines
    last_pos,       \* LogParser.last_pos
    latest_rate,    \* LogParser.latest_rate: None or [ts, bps]
    recent_events,  \* LogParser.recent_events: insertion-ordered dict, app -> [(ts, etype)]
    depot_to_app,   \* LogParser.depot_to_app
    rate_entries,   \* LogParser.rate_entries: [(ts, app_id, rate_str)]
    lastOp,         \* the last operation and what it returned
    pc,             \* per thread: position inside _update_log_state
    loc,            \* per thread: the locals of _update_log_state
    manifests,      \* steamapps directory: the manifests in glob order
    pending,        \* modification events of the log not yet handled
    main,           \* main(): config.samples, i, exit status, last rendered line
    monitor         \* SteamMonitor: _started and the observer it owns

vars == <<now, ticks, writes, file, last_pos, latest_rate, recent_events, depot_to_app,
          rate_entries, lastOp, pc, loc, manifests, pending, main, monitor>>

engineVars == <<last_pos, latest_rate, recent_events, depot_to_app, rate_entries>>

----------------------------------------------------------------------------
(* Program constants *)

MAX_AGE_SEC == 180
PRUNE_AGE_SEC == 3600

(* Python's None for a record-valued Optional, and for an Optional[int] *)
None == [none |-> TRUE]
Nil == 0 - 1

----------------------------------------------------------------------------
(* Bounds of the model *)

MaxWrites == 3      \* writes to the log file in one behaviour
MaxTicks == 1       \* clock advances in one behaviour

T0 == 2             \* the clock at construction
TickSteps == {MAX_AGE_SEC, PRUNE_AGE_SEC}
Apps == {1, 2}
Depots == {7}

----------------------------------------------------------------------------
(* Lines of the log.  A line is what the patterns of parser.py see in it:   *)
(*   ts     the timestamp of the line (one leading bracketed timestamp)     *)
(*   rate   the value _LINE_RE captures, Nil when _LINE_RE does not match   *)
(*   unit   the unit _LINE_RE captures, as spelled on the line              *)
(*   app    the first "AppID N" token, Nil when there is none               *)
(*   depot  the first "depot N" token, Nil when there is none               *)
(*   dpat   <<depot_id, app_id>> when DEPOT_PATTERNS[0] matches, else << >> *)
(*   pats   the indexes into all_patterns that match for the line's app     *)

PAUSE_PATTERNS == 1 .. 4
START_PATTERNS == 5 .. 7
NETWORK_PATTERNS == 8 .. 9

Line(ts, rate, unit, app, depot, dpat, pats) ==
    [ts |-> ts, rate |-> rate, unit |-> unit, app |-> app, depot |-> depot,
     dpat |-> dpat, pats |-> pats]

\* "[ts] Download rate: <a> MB/s AppID <a>"
RateLine(ts, a) == Line(ts, a, "MB/s", a, Nil, << >>, {})
\* "[ts] AppID <a> update canceled"
PauseLine(ts, a) == Line(ts, Nil, "", a, Nil, << >>, {1})
\* "[ts] AppID <a> update started"
StartLine(ts, a) == Line(ts, Nil, "", a, Nil, << >>, {5})
\* "[ts] AppID <a> Created download interface"
NetworkLine(ts, a) == Line(ts, Nil, "", a, Nil, << >>, {9})
\* "[ts] Downloading 5 chunks from depot <d> AppID <a>"
DepotLine(ts, d, a) == Line(ts, Nil, "", a, d, <<d, a>>, {7})
\* "[ts] Current download rate: 3 Mbps depot <d>"
DepotRateLine(ts, d) == Line(ts, 3, "Mbps", Nil, d, << >>, {})

----------------------------------------------------------------------------
(* Python's list.sort / sorted on the timestamp: stable in both directions *)

InsertAsc(s, e) ==
    LET k == Cardinality({i \in 1 .. Len(s) : s[i].ts <= e.ts})
    IN  SubSeq(s, 1, k) \o <<e>> \o SubSeq(s, k + 1, Len(s))

InsertDesc(s, e) ==
    LET k == Cardinality({i \in 1 .. Len(s) : s[i].ts >= e.ts})
    IN  SubSeq(s, 1, k) \o <<e>> \o SubSeq(s, k + 1, Len(s))

RECURSIVE sorted(_, _)
sorted(s, reverse) ==
    IF s = << >> THEN << >>
    ELSE LET front == sorted(SubSeq(s, 1, Len(s) - 1), reverse)
         IN  IF reverse THEN InsertDesc(front, s[Len(s)])
                        ELSE InsertAsc(front, s[Len(s)])

RECURSIVE NotOlderThan(_, _, _)
\* a list comprehension [e for e in s if t - e.ts <= age]
NotOlderThan(s, t, age) ==
    IF s = << >> THEN << >>
    ELSE LET rest == NotOlderThan(Tail(s), t, age)
         IN  IF t - Head(s).ts <= age THEN <<Head(s)>> \o rest ELSE rest

----------------------------------------------------------------------------
(* recent_events: a dict in insertion order, a sequence of [app, evs] *)

HasKey(re, app) == \E i \in 1 .. Len(re) : re[i].app = app

\* recent_events.get(app_id, [])
EvGet(re, app) ==
    IF HasKey(re, app)
    THEN re[CHOOSE i \in 1 .. Len(re) : re[i].app = app].evs
    ELSE << >>

\* recent_events.setdefault(app_id, [])
SetDefault(re, app) ==
    IF HasKey(re, app) THEN re ELSE Append(re, [app |-> app, evs |-> << >>])

\* recent_events[app_id] = evs, for a key that is present
EvSet(re, app, evs) ==
    [i \in 1 .. Len(re) |-> IF re[i].app = app THEN [re[i] EXCEPT !.evs = evs] ELSE re[i]]

RECURSIVE PruneEvents(_, _)
\* parser.py 196-203: filter every list, delete the keys left empty
PruneEvents(re, t) ==
    IF re = << >> THEN << >>
    ELSE LET kept == NotOlderThan(Head(re).evs, t, PRUNE_AGE_SEC)
             rest == PruneEvents(Tail(re), t)
         IN  IF kept = << >> THEN rest
             ELSE <<[app |-> Head(re).app, evs |-> kept]>> \o rest

----------------------------------------------------------------------------
(* _update_log_state, line by line *)

\* str.lower() on the unit spellings _LINE_RE accepts (re.IGNORECASE)
Lower(unit) ==
    CASE unit \in {"KB/s", "kb/s", "Kb/s"} -> "kb/s"
      [] unit \in {"MB/s", "mb/s", "Mb/s"} -> "mb/s"
      [] unit \in {"Mbps", "mbps", "MBPS"} -> "mbps"
      [] OTHER -> unit

\* a conversion that takes megabits for megabytes
SpeedBytes_Bits(value, unit) ==
    CASE Lower(unit) = "kb/s" -> value * 1024
      [] Lower(unit) = "mb/s" -> value * 1024 * 1024
      [] Lower(unit) = "mbps" -> value * 1000000
      [] OTHER -> Nil

\* parser.py 133-142; 0 - 1 stands for the "else: continue"
SpeedBytes(value, unit) ==
    CASE Lower(unit) = "kb/s" -> value * 1024
      [] Lower(unit) = "mb/s" -> value * 1024 * 1024
      [] Lower(unit) = "mbps" -> (value * 1000000) \div 8
      [] OTHER -> Nil

\* parser.py 131
RateTooOld(t, ts) == t - ts > MAX_AGE_SEC

\* parser.py 179
EventTooOld(t, ts) == t - ts > PRUNE_AGE_SEC

\* a sample of the same second replaces the held one
IsNewerRate_OrEqual(latest, ts) == latest = None \/ ts >= latest.ts
\* parser.py 143
IsNewerRate(latest, ts) == latest = None \/ ts > latest.ts

\* the depot mapping asked before the AppID token
Attribute_DepotFirst(line, d2a) ==
    IF line.depot # Nil /\ line.depot \in DOMAIN d2a THEN d2a[line.depot]
    ELSE line.app
\* parser.py 146-155: the first AppID token, else the first depot token looked up
Attribute(line, d2a) ==
    IF line.app # Nil THEN line.app
    ELSE IF line.depot # Nil /\ line.depot \in DOMAIN d2a THEN d2a[line.depot]
    ELSE Nil

\* parser.py 118-123: all_patterns[idx] carries etypes[idx]
Etype(idx) ==
    IF idx \in PAUSE_PATTERNS THEN "pause"
    ELSE IF idx \in START_PATTERNS THEN "start"
    ELSE "network"

\* the last pattern of all_patterns that matches
FirstMatch_Last(pats) == CHOOSE i \in pats : \A j \in pats : j <= i
\* parser.py 181-187: the first pattern of all_patterns that matches
FirstMatch(pats) == CHOOSE i \in pats : \A j \in pats : i <= j

\* parser.py 126-159: the rate matcher; skip is the "continue" of line 132
RateMatcher(st, line, t) ==
    IF line.rate = Nil \/ line.ts = Nil THEN [skip |-> FALSE, st |-> st]
    ELSE IF RateTooOld(t, line.ts) THEN [skip |-> TRUE, st |-> st]
    ELSE IF SpeedBytes(line.rate, line.unit) = Nil THEN [skip |-> TRUE, st |-> st]
    ELSE LET app == Attribute(line, st.depot_to_app)
             lr  == IF IsNewerRate(st.latest_rate, line.ts)
                    THEN [ts |-> line.ts, bps |-> SpeedBytes(line.rate, line.unit)]
                    ELSE st.latest_rate
             re  == IF app # Nil
                    THEN Append(st.rate_entries,
                                [ts |-> line.ts, app |-> app, rate |-> line.rate])
                    ELSE st.rate_entries
         IN  [skip |-> FALSE,
              st |-> [st EXCEPT !.latest_rate = lr, !.rate_entries = re]]

\* parser.py 161-166: the depot matcher
DepotMatcher(st, line) ==
    IF line.dpat = << >> THEN st
    ELSE [st EXCEPT !.depot_to_app =
            [d \in DOMAIN st.depot_to_app \cup {line.dpat[1]} |->
                IF d = line.dpat[1] THEN line.dpat[2] ELSE st.depot_to_app[d]]]

\* parser.py 168-189: the lifecycle matcher
LifecycleMatcher(st, line, t) ==
    IF line.app = Nil THEN st
    ELSE LET re == SetDefault(st.recent_events, line.app)
         IN  IF line.ts = Nil \/ EventTooOld(t, line.ts) \/ line.pats = {}
             THEN [st EXCEPT !.recent_events = re]
             ELSE [st EXCEPT !.recent_events =
                     EvSet(re, line.app,
                           Append(EvGet(re, line.app),
                                  [ts |-> line.ts, etype |-> Etype(FirstMatch(line.pats))]))]

\* parser.py 125-189: one iteration of "for line in lines"
ProcessLine(st, line, t) ==
    LET r == RateMatcher(st, line, t)
    IN  IF r.skip THEN r.st
        ELSE LifecycleMatcher(DepotMatcher(r.st, line), line, t)

RECURSIVE ProcessLines(_, _, _)
ProcessLines(st, lines, t) ==
    IF lines = << >> THEN st
    ELSE ProcessLines(ProcessLine(st, Head(lines), t), Tail(lines), t)

\* parser.py 191-203: the prune pass
Prune(st, t) ==
    [st EXCEPT !.rate_entries = NotOlderThan(st.rate_entries, t, PRUNE_AGE_SEC),
               !.recent_events = PruneEvents(st.recent_events, t)]

\* parser.py 117-203: what follows the read, with now captured once
ApplyLines(st, lines, t) == Prune(ProcessLines(st, lines, t), t)

\* parser.py 93-95: the truncation test
Truncated(size, pos) == size < pos

\* a reload that forgets to empty rate_entries
ClearIndexes_KeepRates(st) ==
    [st EXCEPT !.latest_rate = None, !.recent_events = << >>,
               !.depot_to_app = << >>]

\* parser.py 102-105
ClearIndexes(st) ==
    [st EXCEPT !.latest_rate = None, !.recent_events = << >>,
               !.depot_to_app = << >>, !.rate_entries = << >>]

\* The client may write a line in two chunks.  A piece of the file is a
\* whole line or one of the two chunks of a line cut inside its timestamp;
\* a piece counts one unit of file size.
Front(l) == [part |-> "front", of |-> l]
Back(l) == [part |-> "back", of |-> l]
Part(p) == IF "part" \in DOMAIN p THEN p.part ELSE "line"

\* what the patterns see in a piece read as a line of its own: in a front
\* chunk nothing, in a back chunk the tokens that need no timestamp
Seen(p) ==
    CASE Part(p) = "line" -> p
      [] Part(p) = "front" -> Line(Nil, Nil, "", Nil, Nil, << >>, {})
      [] Part(p) = "back" -> Line(Nil, Nil, "", p.of.app, p.of.depot, p.of.dpat, {})

RECURSIVE splitlines(_)
\* str.splitlines(): a front chunk and the back chunk after it are one line
splitlines(text) ==
    IF text = << >> THEN << >>
    ELSE IF /\ Len(text) >= 2
            /\ Part(text[1]) = "front"
            /\ Part(text[2]) = "back"
    THEN <<text[1].of>> \o splitlines(SubSeq(text, 3, Len(text)))
    ELSE <<Seen(text[1])>> \o splitlines(Tail(text))

\* parser.py 107-110: the lines of the text read from offset pos
LinesFrom(content, pos) == splitlines(SubSeq(content, pos + 1, Len(content)))

\* a cursor that stays where the read began
Tell_Start(pos, size) == pos
\* a cursor that stops one line short of the end of the file
Tell_Short(pos, size) == IF size > 0 THEN size - 1 ELSE 0
\* parser.py 107-109: f.tell() after f.seek(pos) and f.read()
Tell(pos, size) == IF size > pos THEN size ELSE pos

\* parser.py 83-203 run by one thread without interruption.  io is what the
\* file system does: "ok"; "open_fail" (exists() is false, or open or the size
\* query raises OSError); "read_fail" (seek or read raises OSError).
UpdateLogState(st, content, full_load, t, io) ==
    IF io = "open_fail" THEN st
    ELSE LET trunc == Truncated(Len(content), st.last_pos)
             full  == full_load \/ trunc
             st1   == IF trunc THEN [st EXCEPT !.last_pos = 0] ELSE st
         IN  IF io = "read_fail" THEN st1
             ELSE IF full
             THEN ApplyLines(ClearIndexes([st1 EXCEPT !.last_pos = Len(content)]),
                             LinesFrom(content, 0), t)
             ELSE LET lines == LinesFrom(content, st1.last_pos)
                      st2   == [st1 EXCEPT !.last_pos = Tell(st1.last_pos, Len(content))]
                  IN  IF lines = << >> THEN st2 ELSE ApplyLines(st2, lines, t)

\* the engine's fields as one record
Engine ==
    [last_pos |-> last_pos, latest_rate |-> latest_rate,
     recent_events |-> recent_events, depot_to_app |-> depot_to_app,
     rate_entries |-> rate_entries]

\* LogParser.__init__ over an absent or empty log (parser.py 62-81)
NewEngine ==
    [last_pos |-> 0, latest_rate |-> None, recent_events |-> << >>,
     depot_to_app |-> << >>, rate_entries |-> << >>]

----------------------------------------------------------------------------
(* The queries, on the engine as _update_log_state left it *)

\* a scan that never finds the later pause
HasLaterPause_Never(evs, ts, t) == FALSE

\* parser.py 238-245
HasLaterPause(evs, ts, t) ==
    \E i \in 1 .. Len(evs) :
        /\ evs[i].etype = "pause"
        /\ evs[i].ts > ts
        /\ t - evs[i].ts <= MAX_AGE_SEC

\* parser.py 234
RateIsRecent(t, ts) == t - ts <= MAX_AGE_SEC

\* the loop of 233-247 over rate_entries as stored, the sort of 232 forgotten
RateTier_Unsorted(st, t) ==
    LET rs == st.rate_entries
        ok == {i \in 1 .. Len(rs) :
                 /\ RateIsRecent(t, rs[i].ts)
                 /\ ~HasLaterPause(sorted(EvGet(st.recent_events, rs[i].app), FALSE),
                                   rs[i].ts, t)}
    IN  IF ok = {} THEN Nil
        ELSE rs[CHOOSE i \in ok : \A j \in ok : i <= j].app

\* parser.py 232-247: the first rate entry, newest first, that is recent and
\* has no later pause; Nil when the loop ends without returning
RateTier(st, t) ==
    LET rs == sorted(st.rate_entries, TRUE)
        ok == {i \in 1 .. Len(rs) :
                 /\ RateIsRecent(t, rs[i].ts)
                 /\ ~HasLaterPause(sorted(EvGet(st.recent_events, rs[i].app), FALSE),
                                   rs[i].ts, t)}
    IN  IF ok = {} THEN Nil
        ELSE rs[CHOOSE i \in ok : \A j \in ok : i <= j].app

\* a test that forgets the network events
IsActiveKind_StartOnly(etype) == etype = "start"

\* parser.py 255
IsActiveKind(etype) == etype \in {"start", "network"}

RECURSIVE ActiveApps(_, _)
\* parser.py 249-265: active_apps, in the order of recent_events.items()
ActiveApps(re, t) ==
    IF re = << >> THEN << >>
    ELSE LET evs  == sorted(Head(re).evs, FALSE)
             rest == ActiveApps(Tail(re), t)
         IN  IF evs = << >> THEN rest
             ELSE LET latest == evs[Len(evs)]
                  IN  IF /\ IsActiveKind(latest.etype)
                         /\ t - latest.ts <= MAX_AGE_SEC
                         /\ ~HasLaterPause(evs, latest.ts, t)
                      THEN <<[ts |-> latest.ts, app |-> Head(re).app]>> \o rest
                      ELSE rest

\* parser.py 249-269
EventTier(st, t) ==
    LET active_apps == sorted(ActiveApps(st.recent_events, t), TRUE)
    IN  IF active_apps = << >> THEN Nil ELSE active_apps[1].app

\* parser.py 227-269, after the refresh of line 229
MostRecentActiveDownload(st, t) ==
    IF RateTier(st, t) # Nil THEN RateTier(st, t) ELSE EventTier(st, t)

\* parser.py 274-281, after the refresh: the answer, and recent_events with
\* the app's list sorted in place
RecentPauseInfo(st, app) ==
    LET events == EvGet(st.recent_events, app)
    IN  IF events = << >> THEN [res |-> None, st |-> st]
        ELSE LET srt == sorted(events, TRUE)
             IN  [res |-> IF srt[1].etype = "pause"
                          THEN [ts |-> srt[1].ts, status |-> "paused"]
                          ELSE None,
                  st  |-> [st EXCEPT !.recent_events = EvSet(@, app, srt)]]

\* a read that hands out the held sample whatever its age
LatestSpeed_NoAge(st, t) == st.latest_rate

\* parser.py 310-315, after the refresh
LatestSpeed(st, t) ==
    IF st.latest_rate # None /\ t - st.latest_rate.ts <= MAX_AGE_SEC
    THEN st.latest_rate
    ELSE None

\* monitor.py 53: the speed get_current_sample takes from read_latest_speed
SampleSpeed(speed_entry) == IF speed_entry # None THEN speed_entry.bps ELSE 0

----------------------------------------------------------------------------
(* The serial engine: one caller, every call runs to its end *)

IOs == {"ok", "open_fail", "read_fail"}

\* what lastOp keeps of a call: its name, its argument and its result; of a
\* refresh on its own also whether the file could be read and whether the
\* file was found shorter than the cursor
Op(op, arg, res) ==
    [op |-> op, ok |-> TRUE, arg |-> arg, res |-> res, trunc |-> FALSE]

RefreshOp(io) ==
    [op |-> "refresh", ok |-> io = "ok", arg |-> Nil, res |-> None,
     trunc |-> io \in {"ok", "read_fail"} /\ Truncated(Len(file), last_pos)]

Env == [op |-> "env", ok |-> TRUE, arg |-> Nil, res |-> None, trunc |-> FALSE]

SetEngine(st) ==
    /\ last_pos' = st.last_pos
    /\ latest_rate' = st.latest_rate
    /\ recent_events' = st.recent_events
    /\ depot_to_app' = st.depot_to_app
    /\ rate_entries' = st.rate_entries

\* the apps get_recent_pause_info is asked about
QueriedApps == {1}

\* main() has not entered its loop (main.py 29-52); slept tells whether the
\* latest pass of the loop ended in time.sleep
NotStarted ==
    [samples |-> 0, daemon |-> FALSE, i |-> 0, exit |-> Nil, display |-> None,
     logged |-> FALSE, slept |-> FALSE]

\* SteamMonitor.__init__ (monitor.py 33-35): a new observer, not started;
\* calls lists the observer's methods called so far
NewMonitor == [started |-> FALSE, observer |-> "initial", calls |-> << >>]

Threads == {"watcher", "query"}
NoLocals == [full |-> FALSE, size |-> 0, pos |-> 0, lines |-> << >>]

Init ==
    /\ now = T0
    /\ ticks = 0
    /\ writes = 0
    /\ file = << >>
    /\ last_pos = 0
    /\ latest_rate = None
    /\ recent_events = << >>
    /\ depot_to_app = << >>
    /\ rate_entries = << >>
    /\ lastOp = Env
    /\ pc = [t \in Threads |-> "idle"]
    /\ loc = [t \in Threads |-> NoLocals]
    /\ manifests = << >>
    /\ pending = 0
    /\ main = NotStarted
    /\ monitor = NewMonitor

\* the Steam client appends line l to the log
Write(l) ==
    /\ writes < MaxWrites
    /\ writes' = writes + 1
    /\ file' = Append(file, l)
    /\ lastOp' = Env
    /\ UNCHANGED <<now, ticks, engineVars, pc, loc, manifests, monitor, main, pending>>

\* the log is written anew from its start with content
Rewrite(content) ==
    /\ writes < MaxWrites
    /\ writes' = writes + 1
    /\ file' = content
    /\ lastOp' = Env
    /\ UNCHANGED <<now, ticks, engineVars, pc, loc, manifests, monitor, main, pending>>

\* time passes
Tick ==
    /\ ticks < MaxTicks
    /\ \E d \in TickSteps : now' = now + d
    /\ ticks' = ticks + 1
    /\ lastOp' = Env
    /\ UNCHANGED <<writes, file, engineVars, pc, loc, manifests, monitor, main, pending>>

\* monitor.py 13-18 / parser.py 83-203: a refresh on its own
Refresh ==
    \E io \in IOs :
        /\ SetEngine(UpdateLogState(Engine, file, FALSE, now, io))
        /\ lastOp' = RefreshOp(io)
        /\ UNCHANGED <<now, ticks, writes, file, pc, loc, manifests, monitor, main, pending>>

\* parser.py 271-281
GetRecentPauseInfo ==
    \E io \in IOs, app \in QueriedApps :
        LET r == RecentPauseInfo(UpdateLogState(Engine, file, FALSE, now, io), app)
        IN  /\ SetEngine(r.st)
            /\ lastOp' = Op("get_recent_pause_info", app, r.res)
            /\ UNCHANGED <<now, ticks, writes, file, pc, loc, manifests, monitor, main, pending>>

\* parser.py 227-269
GetMostRecentActiveDownload ==
    \E io \in IOs :
        LET st == UpdateLogState(Engine, file, FALSE, now, io)
        IN  /\ SetEngine(st)
            /\ lastOp' = Op("get_most_recent_active_download", Nil,
                            [app |-> MostRecentActiveDownload(st, now)])
            /\ UNCHANGED <<now, ticks, writes, file, pc, loc, manifests, monitor, main, pending>>

\* parser.py 306-315
ReadLatestSpeed ==
    \E io \in IOs :
        LET st == UpdateLogState(Engine, file, FALSE, now, io)
        IN  /\ SetEngine(st)
            /\ lastOp' = Op("read_latest_speed", Nil, LatestSpeed(st, now))
            /\ UNCHANGED <<now, ticks, writes, file, pc, loc, manifests, monitor, main, pending>>

----------------------------------------------------------------------------
(* Spec: tailing, truncation and staleness.  The log holds rate and pause   *)
(* lines of one app, stamped with the current second or the one before.     *)

TailLines(t) == {RateLine(t, 1), RateLine(t - 1, 1), PauseLine(t - 1, 1)}

AppendLine == \E l \in TailLines(now) : Write(l)

\* the log is emptied, or replaced by one new line
RewriteLog ==
    /\ file # << >>
    /\ \/ Rewrite(<< >>)
       \/ \E l \in TailLines(now) : Rewrite(<<l>>)

Next ==
    \/ AppendLine
    \/ RewriteLog
    \/ Tick
    \/ Refresh
    \/ GetRecentPauseInfo
    \/ ReadLatestSpeed

Spec == Init /\ [][Next]_vars

----------------------------------------------------------------------------
(* Properties of tailing, truncation and staleness (checked under Spec) *)

\* the engine a full load of content at time t builds from nothing
FreshLoad(content, t) == UpdateLogState(NewEngine, content, TRUE, t, "ok")

\* every entry of every index is backed by a line of content
OnlyFrom(content) ==
    /\ last_pos = Len(content)
    /\ \A i \in 1 .. Len(rate_entries) :
          \E k \in 1 .. Len(content) :
              /\ content[k].rate = rate_entries[i].rate
              /\ content[k].ts = rate_entries[i].ts
    /\ Len(rate_entries) <= Cardinality({k \in 1 .. Len(content) : content[k].rate # Nil})
    /\ latest_rate # None =>
          \E k \in 1 .. Len(content) :
              /\ content[k].rate # Nil
              /\ content[k].ts = latest_rate.ts
              /\ SpeedBytes(content[k].rate, content[k].unit) = latest_rate.bps
    /\ \A i \in 1 .. Len(recent_events) :
          /\ Len(recent_events[i].evs) <=
                Cardinality({k \in 1 .. Len(content) : content[k].app = recent_events[i].app
                                                       /\ content[k].pats # {}})
          /\ \A j \in 1 .. Len(recent_events[i].evs) :
                \E k \in 1 .. Len(content) :
                    /\ content[k].app = recent_events[i].app
                    /\ content[k].ts = recent_events[i].evs[j].ts
                    /\ content[k].pats # {}
    /\ \A d \in DOMAIN depot_to_app :
          \E k \in 1 .. Len(content) : content[k].dpat = <<d, depot_to_app[d]>>

C3_NoStaleAnswer ==
    (lastOp.op = "get_recent_pause_info" /\ lastOp.res # None)
        => now - lastOp.res.ts <= PRUNE_AGE_SEC

\* C4: read_latest_speed answers with a sample only if the sample is at most
\* 180 s old at the call, a held sample older than that is answered as none
\* (speed 0 in the composed sample), and no refresh makes a line that is older
\* than 180 s at that refresh the latest throughput.
C4_FreshAnswer ==
    lastOp.op = "read_latest_speed" =>
        /\ lastOp.res # None => now - lastOp.res.ts <= MAX_AGE_SEC
        /\ (latest_rate # None /\ now - latest_rate.ts > MAX_AGE_SEC) =>
              (lastOp.res = None /\ SampleSpeed(lastOp.res) = 0)
        /\ (latest_rate # None /\ now - latest_rate.ts <= MAX_AGE_SEC) =>
              lastOp.res = latest_rate

C4_FreshWhenParsed ==
    (latest_rate' # latest_rate /\ latest_rate' # None)
        => now' - latest_rate'.ts <= MAX_AGE_SEC

C4_SpeedOnlyIfRecent == [](C4_FreshAnswer) /\ [][C4_FreshWhenParsed]_vars

\* a held sample aged past 180 s with no further log line, and was answered
\* as none
C4_Witness ==
    /\ lastOp.op = "read_latest_speed"
    /\ latest_rate # None /\ now - latest_rate.ts > MAX_AGE_SEC
    /\ lastOp.res = None

----------------------------------------------------------------------------
(* SpecQ: the most recent active download.  The log holds rate, pause,      *)
(* start and network lines of two apps, stamped up to two seconds back; it  *)
(* only grows.                                                              *)

QLines(t) ==
    {RateLine(t - 2, 1), NetworkLine(t - 1, 1), PauseLine(t, 1),
     RateLine(t - 1, 2), StartLine(t, 2), PauseLine(t, 2)}

AppendLineQ == \E l \in QLines(now) : Write(l)

NextQ ==
    \/ AppendLineQ
    \/ Tick
    \/ GetMostRecentActiveDownload

SpecQ == Init /\ [][NextQ]_vars

(* Properties of get_most_recent_active_download (checked under SpecQ) *)

\* the stored events of app a
EventsOf(a) ==
    IF \E k \in 1 .. Len(recent_events) : recent_events[k].app = a
    THEN recent_events[CHOOSE k \in 1 .. Len(recent_events) : recent_events[k].app = a].evs
    ELSE << >>

\* app a has a pause event newer than ts that is at most 180 s old
PausedSince(a, ts) ==
    \E j \in 1 .. Len(EventsOf(a)) :
        /\ EventsOf(a)[j].etype = "pause"
        /\ EventsOf(a)[j].ts > ts
        /\ now - EventsOf(a)[j].ts <= MAX_AGE_SEC

\* the rate entries the rate-confirmed tier accepts
Qualifying ==
    {i \in 1 .. Len(rate_entries) :
        /\ now - rate_entries[i].ts <= MAX_AGE_SEC
        /\ ~PausedSince(rate_entries[i].app, rate_entries[i].ts)}

\* the latest event of app a: the newest, the last logged among the newest
LatestOf(a) ==
    LET evs == EventsOf(a)
        top == {j \in 1 .. Len(evs) : \A k \in 1 .. Len(evs) : evs[k].ts <= evs[j].ts}
    IN  evs[CHOOSE j \in top : \A k \in top : k <= j]

\* the apps whose latest event is a start or network event at most 180 s old
Starting ==
    {a \in Apps :
        /\ EventsOf(a) # << >>
        /\ LatestOf(a).etype \in {"start", "network"}
        /\ now - LatestOf(a).ts <= MAX_AGE_SEC}

Answered == lastOp.op = "get_most_recent_active_download"

\* C5: if some rate entry is at most 180 s old and has no newer pause of its
\* app that is at most 180 s old, the answer is the app of the newest such
\* entry, whatever start or network events other apps have.
C5_RateConfirmed ==
    (Answered /\ Qualifying # {}) =>
        \E i \in Qualifying :
            /\ lastOp.res.app = rate_entries[i].app
            /\ \A j \in Qualifying : rate_entries[j].ts <= rate_entries[i].ts

\* the answer is the app of a qualifying rate entry although the other app
\* has a start or network event newer than every qualifying entry, and the
\* newest qualifying entry is not the first one stored
C5_Witness ==
    /\ Answered /\ Qualifying # {}
    /\ \E a \in Apps :
          /\ a # lastOp.res.app
          /\ EventsOf(a) # << >>
          /\ LatestOf(a).etype \in {"start", "network"}
          /\ \A i \in Qualifying : rate_entries[i].ts < LatestOf(a).ts
    /\ \E i \in Qualifying : rate_entries[i].ts > rate_entries[1].ts

\* app a has a pause within the 180 s window that is newer than every rate
\* entry and every start or network event of a
Superseded(a) ==
    \E j \in 1 .. Len(EventsOf(a)) :
        /\ EventsOf(a)[j].etype = "pause"
        /\ now - EventsOf(a)[j].ts <= MAX_AGE_SEC
        /\ \A i \in 1 .. Len(rate_entries) :
              rate_entries[i].app = a => rate_entries[i].ts < EventsOf(a)[j].ts
        /\ \A k \in 1 .. Len(EventsOf(a)) :
              EventsOf(a)[k].etype \in {"start", "network"}
                  => EventsOf(a)[k].ts < EventsOf(a)[j].ts

\* C6: an app whose pause within the 180 s window is newer than all its rate
\* entries and all its start and network events is never the answer.
C6_PauseSupersedes ==
    Answered => \A a \in Apps : Superseded(a) => lastOp.res.app # a

\* an app with a recent rate entry and a recent network event was paused
\* after both, and the answer is none
C6_Witness ==
    /\ Answered /\ lastOp.res.app = Nil
    /\ \E a \in Apps :
          /\ Superseded(a)
          /\ \E i \in 1 .. Len(rate_entries) :
                rate_entries[i].app = a /\ now - rate_entries[i].ts <= MAX_AGE_SEC
          /\ \E k \in 1 .. Len(EventsOf(a)) : EventsOf(a)[k].etype = "network"

\* C7: when no rate entry qualifies, the answer is an app whose latest event
\* is a start or network event at most 180 s old and no such app has a more
\* recent latest event; it is none when there is no such app.
C7_EventTier ==
    (Answered /\ Qualifying = {}) =>
        IF Starting = {} THEN lastOp.res.app = Nil
        ELSE /\ lastOp.res.app \in Starting
             /\ \A b \in Starting : LatestOf(b).ts <= LatestOf(lastOp.res.app).ts

\* no rate entry qualifies, two apps have a start or network event as their
\* latest, and the one answered is the more recent, a network event
C7_Witness ==
    /\ Answered /\ Qualifying = {}
    /\ Cardinality(Starting) = 2
    /\ LatestOf(lastOp.res.app).etype = "network"
    /\ \E b \in Starting : LatestOf(b).ts < LatestOf(lastOp.res.app).ts

\* no rate entry qualifies and no app is starting: the answer is none
C7_WitnessNone ==
    /\ Answered /\ Qualifying = {} /\ Starting = {}
    /\ recent_events # << >>
    /\ lastOp.res.app = Nil

----------------------------------------------------------------------------
(* SpecC: the watcher thread (LogHandler.on_modified) and the query thread  *)
(* (read_latest_speed) both run _update_log_state.  LogParser holds no      *)
(* lock, so the threads interleave between statements; a thread's position  *)
(* is pc, its locals (full_load, current_size, the offset sought, lines)    *)
(* are loc.  File operations succeed.                                       *)

ConcLines(t) == {RateLine(t, 1), PauseLine(t, 1)}

\* a write to the log; the observer queues a modification event for it
WriteC(content) ==
    /\ writes < MaxWrites
    /\ writes' = writes + 1
    /\ file' = content
    /\ pending' = pending + 1
    /\ UNCHANGED <<now, ticks, engineVars, lastOp, pc, loc, manifests, monitor, main>>

AppendLineC == \E l \in ConcLines(now) : WriteC(Append(file, l))

\* the log is emptied
TruncateLogC == file # << >> /\ WriteC(<< >>)

\* monitor.py 13-16: the watcher handles one modification event of the log;
\* the query thread calls read_latest_speed whenever it is idle
Called(t) ==
    IF t = "watcher" THEN pending > 0 /\ pending' = pending - 1
    ELSE UNCHANGED pending

\* where a thread goes when _update_log_state returns
Returned(t) == IF t = "query" THEN "answer" ELSE "idle"

\* parser.py 85-95: open, take the size, test it against the cursor
Enter(t) ==
    /\ pc[t] = "idle"
    /\ Called(t)
    /\ LET trunc == Truncated(Len(file), last_pos)
       IN  /\ last_pos' = IF trunc THEN 0 ELSE last_pos
           /\ loc' = [loc EXCEPT ![t] = [full |-> trunc, size |-> Len(file),
                                         pos |-> 0, lines |-> << >>]]
    /\ pc' = [pc EXCEPT ![t] = "opened"]
    /\ UNCHANGED <<now, ticks, writes, file, latest_rate, recent_events,
                   depot_to_app, rate_entries, lastOp, manifests, monitor, main>>

\* parser.py 98 / 107: f.seek(0) or f.seek(self.last_pos)
Seek(t) ==
    /\ pc[t] = "opened"
    /\ loc' = [loc EXCEPT ![t].pos = IF loc[t].full THEN 0 ELSE last_pos]
    /\ pc' = [pc EXCEPT ![t] = "sought"]
    /\ UNCHANGED <<now, ticks, writes, file, engineVars, lastOp, manifests, monitor, main, pending>>

\* parser.py 99-105 / 108-112: read to the end, move the cursor there, and on
\* a full load empty the indexes
Read(t) ==
    /\ pc[t] = "sought"
    /\ LET lines == LinesFrom(file, loc[t].pos)
           st    == [Engine EXCEPT !.last_pos = Len(file)]
       IN  /\ SetEngine(IF loc[t].full THEN ClearIndexes(st) ELSE st)
           /\ loc' = [loc EXCEPT ![t].lines = lines]
           /\ pc' = [pc EXCEPT ![t] = IF ~loc[t].full /\ lines = << >>
                                      THEN Returned(t) ELSE "parsing"]
    /\ UNCHANGED <<now, ticks, writes, file, lastOp, manifests, monitor, main, pending>>

\* parser.py 117-203: match the lines read and prune
Parse(t) ==
    /\ pc[t] = "parsing"
    /\ SetEngine(ApplyLines(Engine, loc[t].lines, now))
    /\ loc' = [loc EXCEPT ![t] = NoLocals]
    /\ pc' = [pc EXCEPT ![t] = Returned(t)]
    /\ UNCHANGED <<now, ticks, writes, file, lastOp, manifests, monitor, main, pending>>

\* parser.py 310-315: read_latest_speed reads latest_rate
Answer(t) ==
    /\ pc[t] = "answer"
    /\ lastOp' = Op("read_latest_speed", Nil, LatestSpeed(Engine, now))
    /\ loc' = [loc EXCEPT ![t] = NoLocals]
    /\ pc' = [pc EXCEPT ![t] = "idle"]
    /\ UNCHANGED <<now, ticks, writes, file, engineVars, manifests, monitor, main, pending>>

NextC ==
    \/ AppendLineC
    \/ TruncateLogC
    \/ \E t \in Threads : Enter(t)
    \/ \E t \in Threads : Seek(t)
    \/ \E t \in Threads : Read(t)
    \/ \E t \in Threads : Parse(t)
    \/ \E t \in Threads : Answer(t)

SpecC == Init /\ [][NextC]_vars

\* a thread is inside the section that reads the cursor and the indexes and
\* updates them
InSection(t) == pc[t] # "idle"

\* C2: the watcher's refresh and the query's refresh and index read never
\* overlap: at most one thread is inside the section at any time.
C2_MutualExclusion ==
    \A t1, t2 \in Threads : (InSection(t1) /\ InSection(t2)) => t1 = t2

----------------------------------------------------------------------------
(* The active-game resolver (game_finder.py).  A manifest is a file of the  *)
(* steamapps directory: its path, whether parse_acf can read it, the        *)
(* key -> value strings parse_acf returns for it, and its st_mtime.         *)

\* int(s) on the value strings of the manifests; a string outside the table
\* makes int() raise ValueError
IntTable ==
    ("0" :> 0) @@ ("1" :> 1) @@ ("2" :> 2) @@ ("4" :> 4) @@ ("5" :> 5)
    @@ ("256" :> 256) @@ ("512" :> 512) @@ ("1024" :> 1024)
    @@ ("2097152" :> 2097152)

IsInt(s) == s \in DOMAIN IntTable
IntOf(s) == IntTable[s]

\* data.get(key, default)
Get(data, key, default) == IF key \in DOMAIN data THEN data[key] ELSE default

RECURSIVE BitAnd(_, _)
\* the integer a & b
BitAnd(a, b) ==
    IF a = 0 \/ b = 0 THEN 0
    ELSE (a % 2) * (b % 2) + 2 * BitAnd(a \div 2, b \div 2)

\* game_finder.py 57: flags & 512
PausedFlag == 512
\* game_finder.py 59: 256 | 1024 | 1048576
DownloadFlags == 256 + 1024 + 1048576

\* DownloadingGame(app_id, name, acf_path), None, and a propagating exception
Game(app_id, name, path) ==
    [kind |-> "game", app_id |-> app_id, name |-> name, path |-> path]
NoGame == [kind |-> "none"]
Raised == [kind |-> "raise"]

RECURSIVE LogTier(_, _, _)
\* game_finder.py 23-32: the first manifest from position i on whose appid is
\* active_app_id; ACFParseError is caught, the ValueError of int() is not
LogTier(dir, i, active_app_id) ==
    IF i > Len(dir) THEN NoGame
    ELSE IF ~dir[i].readable THEN LogTier(dir, i + 1, active_app_id)
    ELSE IF ~IsInt(Get(dir[i].data, "appid", "0")) THEN Raised
    ELSE IF IntOf(Get(dir[i].data, "appid", "0")) = active_app_id
         THEN Game(active_app_id, Get(dir[i].data, "name", "Unknown"), dir[i].path)
         ELSE LogTier(dir, i + 1, active_app_id)

\* a completed download counted as one with bytes left
BytesRemain_OrEqual(bytes_to_dl, bytes_dl) == bytes_to_dl >= bytes_dl
\* game_finder.py 63: bytes_to_dl > bytes_dl
BytesRemain(bytes_to_dl, bytes_dl) == bytes_to_dl > bytes_dl

\* game_finder.py 53-66: the bucket of manifest m with StateFlags flags, when
\* get_recent_pause_info has answered info
Bucket(m, flags, info) ==
    [st |-> info.st,
     bucket |->
       IF info.res # None \/ BitAnd(flags, PausedFlag) # 0 THEN "paused"
       ELSE IF BitAnd(flags, DownloadFlags) # 0
       THEN IF "BytesToDownload" \in DOMAIN m.data
               /\ "BytesDownloaded" \in DOMAIN m.data
            THEN IF ~IsInt(m.data["BytesToDownload"])
                    \/ ~IsInt(m.data["BytesDownloaded"])
                 THEN "skip"
                 ELSE IF BytesRemain(IntOf(m.data["BytesToDownload"]),
                                     IntOf(m.data["BytesDownloaded"]))
                      THEN "active" ELSE "skip"
            ELSE "skip"
       ELSE "paused"]

\* the try block with a catch-all "paused" for whatever is not "active"
Classify_CatchAll(m, st, content, t) ==
    IF ~m.readable \/ ~IsInt(Get(m.data, "appid", "0"))
    THEN [bucket |-> "skip", st |-> st]
    ELSE IF IntOf(Get(m.data, "appid", "0")) = 0
            \/ ~IsInt(Get(m.data, "StateFlags", "4"))
    THEN [bucket |-> "skip", st |-> st]
    ELSE LET app_id == IntOf(Get(m.data, "appid", "0"))
             flags  == IntOf(Get(m.data, "StateFlags", "4"))
             info   == RecentPauseInfo(UpdateLogState(st, content, FALSE, t, "ok"), app_id)
         IN  [st |-> info.st,
              bucket |->
                IF info.res # None \/ BitAnd(flags, PausedFlag) # 0 THEN "paused"
                ELSE IF /\ BitAnd(flags, DownloadFlags) # 0
                        /\ "BytesToDownload" \in DOMAIN m.data
                        /\ "BytesDownloaded" \in DOMAIN m.data
                        /\ IsInt(m.data["BytesToDownload"])
                        /\ IsInt(m.data["BytesDownloaded"])
                        /\ IntOf(m.data["BytesToDownload"]) > IntOf(m.data["BytesDownloaded"])
                THEN "active" ELSE "paused"]

\* game_finder.py 42-69: the try block for one manifest.  bucket is "active",
\* "paused" or "skip"; st is the engine as get_recent_pause_info leaves it
Classify(m, st, content, t) ==
    IF ~m.readable \/ ~IsInt(Get(m.data, "appid", "0"))
    THEN [bucket |-> "skip", st |-> st]
    ELSE IF IntOf(Get(m.data, "appid", "0")) = 0
    THEN [bucket |-> "skip", st |-> st]
    ELSE IF ~IsInt(Get(m.data, "StateFlags", "4"))
    THEN [bucket |-> "skip", st |-> st]
    ELSE Bucket(m, IntOf(Get(m.data, "StateFlags", "4")),
                RecentPauseInfo(UpdateLogState(st, content, FALSE, t, "ok"),
                                IntOf(Get(m.data, "appid", "0"))))

\* the (last_modified, game) tuple of game_finder.py 58, 64, 66
Entry(m) ==
    [ts |-> m.mtime,
     game |-> Game(IntOf(Get(m.data, "appid", "0")),
                   Get(m.data, "name", "Unknown"), m.path)]

\* game_finder.py 58, 64, 66: the lists after the try block of one manifest
Put(acc, c, entry) ==
    [st |-> c.st,
     active_games |-> IF c.bucket = "active"
                      THEN Append(acc.active_games, entry) ELSE acc.active_games,
     paused_games |-> IF c.bucket = "paused"
                      THEN Append(acc.paused_games, entry) ELSE acc.paused_games]

RECURSIVE Scan(_, _, _, _, _)
\* game_finder.py 38-69: the loop over the manifests from position i on
Scan(dir, i, acc, content, t) ==
    IF i > Len(dir) THEN acc
    ELSE Scan(dir, i + 1,
              Put(acc, Classify(dir[i], acc.st, content, t), Entry(dir[i])),
              content, t)

\* the most recently modified manifest of the two buckets taken together
Pick_NewestOverall(active_games, paused_games) ==
    IF active_games \o paused_games # << >>
    THEN sorted(active_games \o paused_games, TRUE)[1].game
    ELSE NoGame

\* game_finder.py 71-78
Pick(active_games, paused_games) ==
    IF active_games # << >> THEN sorted(active_games, TRUE)[1].game
    ELSE IF paused_games # << >> THEN sorted(paused_games, TRUE)[1].game
    ELSE NoGame

\* game_finder.py 71-78 on the lists r of the loop
Chosen(r) == [res |-> Pick(r.active_games, r.paused_games), st |-> r.st]

\* game_finder.py 36-78: _find_active_game_fallback, the game and the engine
Fallback(dir, st, content, t) ==
    Chosen(Scan(dir, 1, [st |-> st, active_games |-> << >>, paused_games |-> << >>],
                content, t))

\* "if active_app_id is not None:"
Truthy_NotNone(active_app_id) == active_app_id # Nil

\* game_finder.py 22: "if active_app_id:" is false for None and for 0
Truthy(active_app_id) == active_app_id # Nil /\ active_app_id # 0

\* game_finder.py 34: the fallback's answer, with what the engine reported
Reported(r, active) == [res |-> r.res, st |-> r.st, active |-> active]

\* game_finder.py 22-34: the two tiers, the engine having reported active
Tiers(dir, st, content, t, active) ==
    IF Truthy(active) /\ LogTier(dir, 1, active) # NoGame
    THEN [res |-> LogTier(dir, 1, active), st |-> st, active |-> active]
    ELSE Reported(Fallback(dir, st, content, t), active)

\* game_finder.py 17-34: find_active_game; active is what the engine reported
FindGame(dir, st0, content, t) ==
    Tiers(dir, UpdateLogState(st0, content, FALSE, t, "ok"), content, t,
          MostRecentActiveDownload(UpdateLogState(st0, content, FALSE, t, "ok"), t))

----------------------------------------------------------------------------
(* SpecF: the resolver over a steamapps directory and an engine constructed *)
(* on a log (container.py builds both; get_current_sample calls it).       *)

MaxManifests == 2
Mtimes == {1, 2}

\* what parse_acf returns for manifests of well-formed, installed games
Installed ==
    { [appid |-> "1", StateFlags |-> "512", BytesToDownload |-> "5", BytesDownloaded |-> "1"],
      [appid |-> "2", name |-> "G", StateFlags |-> "256", BytesToDownload |-> "5", BytesDownloaded |-> "1"],
      [appid |-> "2", StateFlags |-> "4"] }

\* what parse_acf returns for manifests with a value that is not an integer,
\* no appid or appid 0, a finished download, or one byte count
Irregular ==
    { [appid |-> "abc", StateFlags |-> "256", BytesToDownload |-> "5", BytesDownloaded |-> "1"],
      [appid |-> "2", StateFlags |-> "abc"],
      [appid |-> "1", StateFlags |-> "1024", BytesToDownload |-> "abc", BytesDownloaded |-> "1"],
      [appid |-> "0", StateFlags |-> "256", BytesToDownload |-> "5", BytesDownloaded |-> "1"],
      [StateFlags |-> "256", BytesToDownload |-> "5", BytesDownloaded |-> "1"],
      [appid |-> "1", StateFlags |-> "256", BytesToDownload |-> "5", BytesDownloaded |-> "5"],
      [appid |-> "1", StateFlags |-> "256", BytesToDownload |-> "5"] }

\* a manifest file: readable with some content and modification time, or one
\* parse_acf gives up on
Files ==
    { [readable |-> TRUE, data |-> d, mtime |-> m] : d \in Installed, m \in Mtimes }
    \cup { [readable |-> TRUE, data |-> d, mtime |-> 1] : d \in Irregular }
    \cup { [readable |-> FALSE, data |-> [appid |-> "1"], mtime |-> 1] }

\* the directories, in the order glob enumerates them; the path is the position
Directories ==
    UNION { { [i \in 1..n |-> [path |-> i, readable |-> f[i].readable,
                                data |-> f[i].data, mtime |-> f[i].mtime]]
              : f \in [1..n -> Files] } : n \in 0..MaxManifests }

\* the content of content_log.txt when the engine is constructed at time t
FinderLogs(t) ==
    { << >>,
      <<RateLine(t, 1)>>,
      <<StartLine(t, 2)>>,
      <<PauseLine(t, 1)>>,
      <<RateLine(t, 0)>>,
      <<RateLine(t - 1, 1), PauseLine(t, 2)>> }

\* parser.py 62-81 on one of the logs, game_finder.py 13-15 on a directory
InitF ==
    /\ now = T0
    /\ ticks = 0
    /\ writes = 0
    /\ file \in FinderLogs(T0)
    /\ \E st \in {FreshLoad(file, T0)} :
          /\ last_pos = st.last_pos
          /\ latest_rate = st.latest_rate
          /\ recent_events = st.recent_events
          /\ depot_to_app = st.depot_to_app
          /\ rate_entries = st.rate_entries
    /\ lastOp = Env
    /\ pc = [t \in Threads |-> "idle"]
    /\ loc = [t \in Threads |-> NoLocals]
    /\ manifests \in Directories
    /\ pending = 0
    /\ main = NotStarted
    /\ monitor = NewMonitor

\* game_finder.py 17-34: one call of find_active_game
FindActiveGame ==
    LET r == FindGame(manifests, Engine, file, now)
    IN  /\ SetEngine(r.st)
        /\ lastOp' = Op("find_active_game", r.active, r.res)
        /\ UNCHANGED <<now, ticks, writes, file, pc, loc, manifests, monitor, main, pending>>

\* time passes between the construction of the engine and the call
Elapse ==
    /\ now = T0
    /\ \E d \in TickSteps : now' = now + d
    /\ lastOp' = Env
    /\ UNCHANGED <<ticks, writes, file, engineVars, pc, loc, manifests, monitor, main, pending>>

NextF ==
    \/ Elapse
    \/ FindActiveGame

SpecF == InitF /\ [][NextF]_vars

\* find_active_game has just returned or raised
Found == lastOp.op = "find_active_game"

\* manifest m can be parsed and its appid is a
HasAppid(m, a) ==
    /\ m.readable
    /\ "appid" \in DOMAIN m.data
    /\ IsInt(m.data["appid"])
    /\ IntOf(m.data["appid"]) = a

\* C8: when the engine reports an active app_id A and some parseable manifest
\* has appid A, find_active_game returns a game with app_id A, whatever the
\* flags, byte counts or modification times of that or any other manifest.
C8_LogTierWins ==
    (/\ Found
     /\ lastOp.arg # Nil
     /\ \E i \in DOMAIN manifests : HasAppid(manifests[i], lastOp.arg))
    => (lastOp.res.kind = "game" /\ lastOp.res.app_id = lastOp.arg)

\* C9: when the engine reports an active app_id and no manifest of the
\* directory has that appid, the result of find_active_game is exactly the
\* result of the manifest fallback over the same directory.
C9_FallsBack ==
    (/\ Found
     /\ lastOp.arg # Nil
     /\ ~ \E i \in DOMAIN manifests : HasAppid(manifests[i], lastOp.arg))
    => lastOp.res = Fallback(manifests, Engine, file, now).res

\* the value of key in m, when present, is not an integer
NotInteger(m, key) == key \in DOMAIN m.data /\ ~IsInt(m.data[key])

\* m cannot be parsed, or its appid, StateFlags or a byte count is no integer
BadManifest(m) ==
    \/ ~m.readable
    \/ NotInteger(m, "appid")
    \/ NotInteger(m, "StateFlags")
    \/ NotInteger(m, "BytesToDownload")
    \/ NotInteger(m, "BytesDownloaded")

GoodManifest(m) == ~BadManifest(m)

\* C10: a manifest that cannot be parsed, or whose appid, StateFlags or byte
\* count is not an integer, is skipped: find_active_game does not raise and
\* returns the game the other manifests of the directory yield.
C10_BadManifestSkipped ==
    Found =>
        /\ lastOp.res.kind # "raise"
        /\ lastOp.res = FindGame(SelectSeq(manifests, GoodManifest), Engine, file, now).res

----------------------------------------------------------------------------
(* The manifest fallback: buckets and selection (game_finder.py 36-78).     *)

\* the engine reports a pause for app_id (get_recent_pause_info is not None)
PauseSignal(app_id) == RecentPauseInfo(Engine, app_id).res # None

\* the answer of find_active_game came from _find_active_game_fallback
FellBack ==
    /\ Found
    /\ \/ ~Truthy(lastOp.arg)
       \/ LogTier(manifests, 1, lastOp.arg) = NoGame

\* both byte counts of m are present and integers
HasByteCounts(m) ==
    /\ "BytesToDownload" \in DOMAIN m.data
    /\ "BytesDownloaded" \in DOMAIN m.data
    /\ IsInt(m.data["BytesToDownload"])
    /\ IsInt(m.data["BytesDownloaded"])

\* m can be parsed, has an integer appid other than 0 and integer StateFlags
WellFormed(m) ==
    /\ m.readable
    /\ IsInt(Get(m.data, "appid", "0"))
    /\ IntOf(Get(m.data, "appid", "0")) # 0
    /\ IsInt(Get(m.data, "StateFlags", "4"))

AppidOf(m) == IntOf(Get(m.data, "appid", "0"))
FlagsOf(m) == IntOf(Get(m.data, "StateFlags", "4"))

\* a download-family flag, no flag 512, no pause reported by the log
DownloadFlagged(m) ==
    /\ WellFormed(m)
    /\ BitAnd(FlagsOf(m), DownloadFlags) # 0
    /\ BitAnd(FlagsOf(m), PausedFlag) = 0
    /\ ~PauseSignal(AppidOf(m))

\* download-flagged with BytesDownloaded equal to BytesToDownload
Completed(m) ==
    /\ DownloadFlagged(m)
    /\ HasByteCounts(m)
    /\ IntOf(m.data["BytesToDownload"]) = IntOf(m.data["BytesDownloaded"])

\* C11: in the manifest fallback a download-flagged manifest without flag 512
\* and without a pause signal whose BytesDownloaded equals BytesToDownload is
\* not returned; when it is the only manifest the answer is none.
C11_CompletedNotActive ==
    FellBack =>
        /\ lastOp.res.kind = "game" => ~Completed(manifests[lastOp.res.path])
        /\ (Len(manifests) = 1 /\ Completed(manifests[1])) => lastOp.res = NoGame

\* the fallback has answered none over a directory of one completed download
C11_Witness ==
    /\ FellBack
    /\ Len(manifests) = 1
    /\ Completed(manifests[1])
    /\ lastOp.res = NoGame

\* the two lists as _find_active_game_fallback builds them in this state
Buckets ==
    Scan(manifests, 1, [st |-> Engine, active_games |-> << >>, paused_games |-> << >>],
         file, now)

InActive(i) ==
    \E k \in DOMAIN Buckets.active_games : Buckets.active_games[k].game.path = manifests[i].path
InPaused(i) ==
    \E k \in DOMAIN Buckets.paused_games : Buckets.paused_games[k].game.path = manifests[i].path

\* no pause signal, no flag 512, a download-family flag and bytes left
ActiveRule(m) ==
    /\ DownloadFlagged(m)
    /\ HasByteCounts(m)
    /\ IntOf(m.data["BytesToDownload"]) > IntOf(m.data["BytesDownloaded"])

\* a pause signal, flag 512, or no download-family flag
PausedRule(m) ==
    /\ WellFormed(m)
    /\ \/ PauseSignal(AppidOf(m))
       \/ BitAnd(FlagsOf(m), PausedFlag) # 0
       \/ BitAnd(FlagsOf(m), DownloadFlags) = 0

\* the byte counts of m that are present are integers
ByteCountsSane(m) ==
    ~NotInteger(m, "BytesToDownload") /\ ~NotInteger(m, "BytesDownloaded")

\* C12 as stated: every parseable manifest with non-zero appid is in exactly
\* one bucket, "active" by the rule and "paused" in every other case.
C12_AsStated ==
    FellBack =>
        \A i \in DOMAIN manifests :
            (WellFormed(manifests[i]) /\ ByteCountsSane(manifests[i]))
            => /\ InActive(i) <=> ActiveRule(manifests[i])
               /\ InPaused(i) <=> ~ActiveRule(manifests[i])

\* C12: a manifest with integer non-zero appid and integer StateFlags is in
\* at most one bucket: "active" iff the rule holds, "paused" iff it has a
\* pause signal, flag 512 or no download-family flag; a download-flagged one
\* whose byte counts are equal, missing or no integers is in neither bucket,
\* like every other manifest, and the fallback answers from the buckets only.
C12_Buckets ==
    FellBack =>
        /\ \A i \in DOMAIN manifests :
              /\ InActive(i) <=> ActiveRule(manifests[i])
              /\ InPaused(i) <=> PausedRule(manifests[i])
              /\ ~(InActive(i) /\ InPaused(i))
        /\ lastOp.res.kind = "game"
              => (InActive(lastOp.res.path) \/ InPaused(lastOp.res.path))

\* a completed download is in neither bucket and the answer is a paused game
C12_Witness ==
    /\ FellBack
    /\ lastOp.res.kind = "game"
    /\ InPaused(lastOp.res.path)
    /\ \E i \in DOMAIN manifests :
          /\ Completed(manifests[i])
          /\ ~InActive(i)
          /\ ~InPaused(i)

InBucket(bucket, i) == IF bucket = "active" THEN InActive(i) ELSE InPaused(i)

\* the answer is a manifest of the bucket, and none of the bucket is newer
NewestOf(bucket) ==
    /\ lastOp.res.kind = "game"
    /\ lastOp.res.path \in DOMAIN manifests
    /\ InBucket(bucket, lastOp.res.path)
    /\ lastOp.res = Entry(manifests[lastOp.res.path]).game
    /\ \A j \in DOMAIN manifests :
          InBucket(bucket, j) => manifests[j].mtime <= manifests[lastOp.res.path].mtime

\* C13: the fallback answers the active manifest with the greatest
\* modification time if there is an active one, even when a paused one was
\* modified later; else the paused manifest with the greatest modification
\* time; else none.
C13_SelectionOrder ==
    FellBack =>
        IF \E i \in DOMAIN manifests : InActive(i) THEN NewestOf("active")
        ELSE IF \E i \in DOMAIN manifests : InPaused(i) THEN NewestOf("paused")
        ELSE lastOp.res = NoGame

\* an active manifest was answered although a paused one was modified later
C13_Witness ==
    /\ FellBack
    /\ lastOp.res.kind = "game"
    /\ InActive(lastOp.res.path)
    /\ \E j \in DOMAIN manifests :
          /\ InPaused(j)
          /\ manifests[j].mtime > manifests[lastOp.res.path].mtime

\* the newer of two active manifests was answered
C13_WitnessNewer ==
    /\ FellBack
    /\ lastOp.res.kind = "game"
    /\ InActive(lastOp.res.path)
    /\ \E j \in DOMAIN manifests :
          /\ InActive(j)
          /\ manifests[j].mtime < manifests[lastOp.res.path].mtime

\* m can be parsed and its appid is "0" or absent (int of the default "0")
ZeroAppid(m) ==
    /\ m.readable
    /\ IsInt(Get(m.data, "appid", "0"))
    /\ IntOf(Get(m.data, "appid", "0")) = 0

\* C14: a manifest whose appid is 0 or absent is never returned by
\* find_active_game, by the log tier or by the fallback, whatever its flags
\* and whatever the log says.
C14_ZeroNeverReturned ==
    (Found /\ lastOp.res.kind = "game")
    => /\ lastOp.res.app_id # 0
       /\ ~ZeroAppid(manifests[lastOp.res.path])

\* the log made the engine report app 0, a download-flagged manifest with
\* appid 0 is in the directory, and find_active_game has answered
C14_Witness ==
    /\ Found
    /\ lastOp.arg = 0
    /\ lastOp.res.kind # "raise"
    /\ \E i \in DOMAIN manifests :
          /\ ZeroAppid(manifests[i])
          /\ BitAnd(FlagsOf(manifests[i]), DownloadFlags) # 0

----------------------------------------------------------------------------
(* The status classification (parser.py 283-304) as a function of its       *)
(* arguments and of the engine, and SpecS, which calls it.                  *)

\* parser.py 297: 2097152 | 4194304
UnpackFlags == 2097152 + 4194304

\* equal byte counts classified by the flags alone
WhenComplete_FlagsOnly(flags, speed) ==
    IF BitAnd(flags, UnpackFlags) # 0 THEN "unpacking"
    ELSE IF BitAnd(flags, DownloadFlags) # 0 THEN "downloading"
    ELSE "idle"

\* parser.py 297-301: bytes_to_dl == bytes_dl
WhenComplete(flags, speed) ==
    IF BitAnd(flags, UnpackFlags) # 0 THEN "unpacking"
    ELSE IF speed > 0 THEN "downloading"
    ELSE "idle"

\* a download flag alone makes an unfinished download "downloading"
WhenIncomplete_FlagsOnly(flags, speed) ==
    IF BitAnd(flags, DownloadFlags) # 0 THEN "downloading" ELSE "paused"
\* parser.py 302-304: bytes_to_dl # bytes_dl
WhenIncomplete(flags, speed) ==
    IF BitAnd(flags, DownloadFlags) # 0
    THEN IF speed > 0 THEN "downloading" ELSE "paused"
    ELSE "paused"

\* parser.py 288-304: the status, when get_recent_pause_info has answered info
Status(info, flags, data, speed) ==
    [st |-> info.st,
     res |->
       IF info.res # None THEN "paused"
       ELSE IF BitAnd(flags, PausedFlag) # 0 THEN "paused"
       ELSE IF "BytesToDownload" \notin DOMAIN data
               \/ "BytesDownloaded" \notin DOMAIN data
       THEN "idle"
       ELSE IF ~IsInt(data["BytesToDownload"]) \/ ~IsInt(data["BytesDownloaded"])
       THEN "raise"
       ELSE IF IntOf(data["BytesToDownload"]) = IntOf(data["BytesDownloaded"])
       THEN WhenComplete(flags, speed)
       ELSE WhenIncomplete(flags, speed)]

\* parser.py 283-304: get_status; "raise" is the ValueError of int()
GetStatus(st0, content, t, flags, data, speed, app_id) ==
    Status(RecentPauseInfo(UpdateLogState(st0, content, FALSE, t, "ok"), app_id),
           flags, data, speed)

\* the arguments get_status is called with
StatusFlags ==
    {4, 256, 512, 1024, 1048576, 2097152, 4194304, 256 + 512, 256 + 2097152}
StatusData ==
    { [name |-> "G"],
      [name |-> "G", BytesToDownload |-> "5"],
      [name |-> "G", BytesToDownload |-> "5", BytesDownloaded |-> "5"],
      [name |-> "G", BytesToDownload |-> "5", BytesDownloaded |-> "1"],
      [name |-> "G", BytesToDownload |-> "1", BytesDownloaded |-> "5"],
      [name |-> "G", BytesToDownload |-> "abc", BytesDownloaded |-> "1"] }
Speeds == {0, 5}

\* parser.py 62-81: an engine constructed on one of the logs
InitS ==
    /\ now = T0
    /\ ticks = 0
    /\ writes = 0
    /\ file \in FinderLogs(T0)
    /\ \E st \in {FreshLoad(file, T0)} :
          /\ last_pos = st.last_pos
          /\ latest_rate = st.latest_rate
          /\ recent_events = st.recent_events
          /\ depot_to_app = st.depot_to_app
          /\ rate_entries = st.rate_entries
    /\ lastOp = Env
    /\ pc = [t \in Threads |-> "idle"]
    /\ loc = [t \in Threads |-> NoLocals]
    /\ manifests = << >>
    /\ pending = 0
    /\ main = NotStarted
    /\ monitor = NewMonitor

\* one call of get_status
GetStatusCall ==
    \E flags \in StatusFlags, data \in StatusData, speed \in Speeds, app_id \in Apps :
        LET r == GetStatus(Engine, file, now, flags, data, speed, app_id)
        IN  /\ SetEngine(r.st)
            /\ lastOp' = Op("get_status",
                            [flags |-> flags, data |-> data, speed |-> speed,
                             app_id |-> app_id],
                            [status |-> r.res])
            /\ UNCHANGED <<now, ticks, writes, file, pc, loc, manifests, monitor, main, pending>>

NextS ==
    \/ Tick
    \/ GetStatusCall

SpecS == InitS /\ [][NextS]_vars

\* get_status has just returned or raised
StatusCalled == lastOp.op = "get_status"

\* the status classification rule for the arguments a
StatusRule(a) ==
    IF PauseSignal(a.app_id) \/ BitAnd(a.flags, PausedFlag) # 0 THEN "paused"
    ELSE IF "BytesToDownload" \notin DOMAIN a.data \/ "BytesDownloaded" \notin DOMAIN a.data
    THEN "idle"
    ELSE IF a.data["BytesDownloaded"] = a.data["BytesToDownload"]
    THEN IF BitAnd(a.flags, UnpackFlags) # 0 THEN "unpacking"
         ELSE IF a.speed > 0 THEN "downloading"
         ELSE "idle"
    ELSE IF BitAnd(a.flags, DownloadFlags) # 0
    THEN IF a.speed > 0 THEN "downloading" ELSE "paused"
    ELSE "paused"

\* the rule gets as far as the byte counts and one of them is no integer
ByteCountsFail(a) ==
    /\ ~PauseSignal(a.app_id)
    /\ BitAnd(a.flags, PausedFlag) = 0
    /\ "BytesToDownload" \in DOMAIN a.data
    /\ "BytesDownloaded" \in DOMAIN a.data
    /\ ~IsInt(a.data["BytesToDownload"]) \/ ~IsInt(a.data["BytesDownloaded"])

\* C15 as stated: get_status equals the status classification rule for
\* every combination of its inputs.
C15_AsStated == StatusCalled => lastOp.res.status = StatusRule(lastOp.arg)

\* C15: get_status equals the status classification rule whenever the byte
\* counts it compares are integers, and raises ValueError when the rule gets
\* as far as the byte counts and one of them is not an integer.
C15_StatusRule ==
    StatusCalled =>
        lastOp.res.status =
            IF ByteCountsFail(lastOp.arg) THEN "raise" ELSE StatusRule(lastOp.arg)

\* a download-family flag, equal byte counts and speed 0 were classified idle
C15_Witness ==
    /\ StatusCalled
    /\ BitAnd(lastOp.arg.flags, DownloadFlags) # 0
    /\ BitAnd(lastOp.arg.flags, UnpackFlags) = 0
    /\ HasByteCounts(lastOp.arg)
    /\ lastOp.arg.data["BytesDownloaded"] = lastOp.arg.data["BytesToDownload"]
    /\ lastOp.arg.speed = 0
    /\ lastOp.res.status = "idle"

----------------------------------------------------------------------------
(* The sample compositor (monitor.py 49-77) and SpecM, which calls it over  *)
(* a directory and an engine.                                               *)

\* DownloadSample(timestamp, speed_bytes_per_sec, status, game)
Sample(speed, status, game) ==
    [kind |-> "sample", speed |-> speed, status |-> status, game |-> game]

\* a sample that keeps the measured speed when there is no game
NoGameSample_KeepSpeed(speed) == Sample(speed, "idle", NoGame)
\* monitor.py 55-60
NoGameSample(speed) == Sample(0, "idle", NoGame)

\* a failure that loses the game and the speed
Degraded_Bare(speed, game) == Sample(0, "idle", NoGame)
\* monitor.py 68-77: the except branch and the return after it
Degraded(speed, game) == Sample(speed, "idle", game)

\* monitor.py 68-77: the sample, get_status having answered or raised r
Classified(r, speed, game) ==
    [sample |-> IF r.res = "raise" THEN Degraded(speed, game)
                ELSE Sample(speed, r.res, game),
     st |-> r.st]

\* monitor.py 62-77: the manifest of the game is parsed again and classified;
\* readable tells whether parse_acf succeeds this time
Compose(st, content, t, m, readable, speed, game) ==
    IF ~readable \/ ~IsInt(Get(m.data, "StateFlags", "4"))
    THEN [sample |-> Degraded(speed, game), st |-> st]
    ELSE Classified(GetStatus(st, content, t, IntOf(Get(m.data, "StateFlags", "4")),
                              m.data, speed, game.app_id),
                    speed, game)

\* monitor.py 72-77 with what was found and measured on the way
Composed(c, found, speed) ==
    [sample |-> c.sample, st |-> c.st, found |-> found, speed |-> speed]

\* monitor.py 53-77: the engine st after read_latest_speed, its answer speed
Measured(dir, st, content, t, readable, found, speed) ==
    IF found = NoGame
    THEN [sample |-> NoGameSample(speed), st |-> st, found |-> found, speed |-> speed]
    ELSE Composed(Compose(st, content, t, dir[found.path], readable, speed, found),
                  found, speed)

\* monitor.py 51-77: find_active_game has answered f
AfterFind(dir, content, t, readable, f, st) ==
    IF f.res = Raised
    THEN [sample |-> Raised, st |-> f.st, found |-> f.res, speed |-> Nil]
    ELSE Measured(dir, st, content, t, readable, f.res, SampleSpeed(LatestSpeed(st, t)))

\* the refresh of read_latest_speed (parser.py 308)
Speeding(dir, content, t, readable, f) ==
    AfterFind(dir, content, t, readable, f, UpdateLogState(f.st, content, FALSE, t, "ok"))

\* monitor.py 49-77: get_current_sample; found is what find_active_game gave,
\* speed what read_latest_speed gave (Nil when it was not reached)
CurrentSample(dir, st0, content, t, readable) ==
    Speeding(dir, content, t, readable, FindGame(dir, st0, content, t))

\* one call of get_current_sample
GetCurrentSample ==
    \E readable \in BOOLEAN :
        LET r == CurrentSample(manifests, Engine, file, now, readable)
        IN  /\ SetEngine(r.st)
            /\ lastOp' = Op("get_current_sample",
                            [found |-> r.found, speed |-> r.speed, readable |-> readable],
                            r.sample)
            /\ UNCHANGED <<now, ticks, writes, file, pc, loc, manifests, monitor, main, pending>>

NextM ==
    \/ Elapse
    \/ GetCurrentSample

SpecM == InitF /\ [][NextM]_vars

\* get_current_sample has just returned or raised
Sampled == lastOp.op = "get_current_sample"

\* C16: when the resolver finds no active game, get_current_sample returns
\* status idle, speed 0 and no game, whatever throughput the engine holds.
C16_NoGameIdle ==
    (Sampled /\ lastOp.arg.found = NoGame)
    => lastOp.res = Sample(0, "idle", NoGame)

\* no game was found while the engine held a fresh, positive throughput
C16_Witness ==
    /\ Sampled
    /\ lastOp.arg.found = NoGame
    /\ lastOp.arg.speed > 0
    /\ lastOp.res.kind = "sample"
    /\ lastOp.res.speed = 0

\* with no manifests and no log activity the sample is idle as well
C16_WitnessEmpty ==
    /\ Sampled
    /\ manifests = << >>
    /\ file = << >>
    /\ lastOp.res = Sample(0, "idle", NoGame)

\* find_active_game resolved a game for the sample
Resolved == Sampled /\ lastOp.arg.found.kind = "game"

\* the manifest of the resolved game
ResolvedManifest == manifests[lastOp.arg.found.path]

\* int(StateFlags) or get_status raises for the manifest of the resolved game
ClassifyingFails ==
    \/ ~IsInt(Get(ResolvedManifest.data, "StateFlags", "4"))
    \/ ByteCountsFail([app_id |-> lastOp.arg.found.app_id,
                       flags |-> FlagsOf(ResolvedManifest),
                       data |-> ResolvedManifest.data])

C17_WitnessClassify ==
    /\ Resolved
    /\ lastOp.arg.readable
    /\ ClassifyingFails
    /\ lastOp.res.kind = "sample"
    /\ lastOp.res.status = "idle"

----------------------------------------------------------------------------
(* The query loop of main() (main.py 52-86) and SpecL, which runs it.       *)

MaxSamples == 2

\* str.upper on the status values (main.py 71)
Upper(status) ==
    CASE status = "idle" -> "IDLE"
      [] status = "paused" -> "PAUSED"
      [] status = "downloading" -> "DOWNLOADING"
      [] status = "unpacking" -> "UNPACKING"

\* f"{x / 1024 / 1024:.2f}" (main.py 73) as a number of hundredths of MB/s:
\* the quotient rounded to the nearest hundredth, a tie to the even one
Format2f(x) ==
    LET q == (x * 100) \div (1024 * 1024)
        r == (x * 100) % (1024 * 1024)
    IN  IF 2 * r > 1024 * 1024 \/ (2 * r = 1024 * 1024 /\ q % 2 = 1)
        THEN q + 1 ELSE q

\* the measured speed shown for every status
SpeedDisplay_Raw(status, speed) == speed
\* main.py 57, 64-68
SpeedDisplay(status, speed) ==
    IF status \in {"idle", "paused"} THEN 0 ELSE speed

\* main.py 59-62
DisplayName(sample) ==
    IF sample.status = "idle" THEN "None"
    ELSE IF sample.game # NoGame THEN sample.game.name
    ELSE "Unknown"

\* main.py 57-75: the line logged for a sample
Render(sample) ==
    [status |-> Upper(sample.status),
     game |-> DisplayName(sample),
     speed |-> Format2f(SpeedDisplay(sample.status, sample.speed))]

\* an exception that ends the loop in every mode
OnError_Fatal(samples) == 1
\* main.py 76-82 and 91-93: the exit status after an exception in the loop;
\* Nil while the process goes on
OnError(samples) == IF samples = 0 THEN Nil ELSE 1

\* config.py 50: the samples of the configuration
FromCli(samples, daemon) == IF daemon THEN 0 ELSE samples

\* main.py 54: the condition of the while loop
While(samples, i) == samples = 0 \/ i < samples

\* a loop that is left through its condition only
Breaks_Never(samples, i) == FALSE
\* main.py 84-85: the break after the last sample
Breaks(samples, i) == samples # 0 /\ i >= samples

\* main.py 54-86: main's state after one pass of the loop that got sample;
\* main() returns (exit status 0) after the break of line 85 or, past the
\* sleep of line 86, when the condition of line 54 fails
Looped(m, sample) ==
    IF sample = Raised
    THEN [m EXCEPT !.exit = OnError(m.samples), !.logged = TRUE, !.display = None,
                   !.slept = (m.samples = 0)]
    ELSE [m EXCEPT !.i = m.i + 1,
                   !.display = Render(sample),
                   !.logged = FALSE,
                   !.slept = ~Breaks(m.samples, m.i + 1),
                   !.exit = IF Breaks(m.samples, m.i + 1) \/ ~While(m.samples, m.i + 1)
                            THEN 0 ELSE Nil]

\* the manifest at position i of a directory
ManifestAt(i, f) ==
    [path |-> i, readable |-> f.readable, data |-> f.data, mtime |-> f.mtime]

\* manifests of the directories the loop runs over
LoopFiles ==
    { [readable |-> TRUE, data |-> d, mtime |-> 1] : d \in
        { [appid |-> "1", StateFlags |-> "512", BytesToDownload |-> "5", BytesDownloaded |-> "1"],
          [appid |-> "2", name |-> "G", StateFlags |-> "256", BytesToDownload |-> "5", BytesDownloaded |-> "1"],
          [appid |-> "2", name |-> "G", StateFlags |-> "2097152", BytesToDownload |-> "5", BytesDownloaded |-> "5"],
          [appid |-> "2", StateFlags |-> "4"],
          [appid |-> "abc", StateFlags |-> "256", BytesToDownload |-> "5", BytesDownloaded |-> "1"] } }

LoopDirectories ==
    { << >> }
    \cup { <<ManifestAt(1, f)>> : f \in LoopFiles }
    \cup { <<ManifestAt(1, f), ManifestAt(2, g)>> :
              f \in {h \in LoopFiles : ~IsInt(h.data["appid"])}, g \in LoopFiles }

\* the content of content_log.txt when main() starts at time t
LoopLogs(t) ==
    { << >>,
      <<RateLine(t, 1)>>,
      <<DepotRateLine(t, 7)>>,
      <<StartLine(t, 2)>>,
      <<DepotRateLine(t, 7), PauseLine(t, 2)>> }

\* main.py 29-53: the configuration is read, the engine is constructed
InitL ==
    /\ now = T0
    /\ ticks = 0
    /\ writes = 0
    /\ file \in LoopLogs(T0)
    /\ \E st \in {FreshLoad(file, T0)} :
          /\ last_pos = st.last_pos
          /\ latest_rate = st.latest_rate
          /\ recent_events = st.recent_events
          /\ depot_to_app = st.depot_to_app
          /\ rate_entries = st.rate_entries
    /\ lastOp = Env
    /\ pc = [t \in Threads |-> "idle"]
    /\ loc = [t \in Threads |-> NoLocals]
    /\ manifests \in LoopDirectories
    /\ pending = 0
    /\ \E n \in 0..MaxSamples, daemon \in BOOLEAN :
          main = [NotStarted EXCEPT !.samples = FromCli(n, daemon), !.daemon = daemon]
    /\ monitor = NewMonitor

\* main.py 54-86: one pass of the while loop
Iteration ==
    /\ main.exit = Nil
    /\ While(main.samples, main.i)
    /\ main.i <= MaxSamples
    /\ \E readable \in BOOLEAN :
        \E r \in {CurrentSample(manifests, Engine, file, now, readable)} :
            /\ SetEngine(r.st)
            /\ lastOp' = Op("iteration",
                            [found |-> r.found, speed |-> r.speed, readable |-> readable],
                            r.sample)
            /\ main' = Looped(main, r.sample)
            /\ UNCHANGED <<now, ticks, writes, file, pc, loc, manifests, monitor, pending>>

\* time.sleep (main.py 79, 86)
Sleep ==
    /\ main.exit = Nil
    /\ now = T0
    /\ \E d \in TickSteps : now' = now + d
    /\ UNCHANGED <<ticks, writes, file, engineVars, lastOp, pc, loc, manifests, monitor, pending, main>>

NextL ==
    \/ Iteration
    \/ Sleep

SpecL == InitL /\ [][NextL]_vars

\* the last pass of the loop composed a sample and rendered it
Rendered == lastOp.op = "iteration" /\ lastOp.res.kind = "sample"

C18_WitnessDownloading ==
    /\ Rendered
    /\ lastOp.res.status = "downloading"
    /\ main.display.speed > 0
    /\ main.display.speed * 1024 * 1024 # lastOp.res.speed * 100

\* an unpacking sample was rendered
C18_WitnessUnpacking ==
    /\ Rendered
    /\ lastOp.res.status = "unpacking"
    /\ main.display.status = "UNPACKING"

\* the pass of the loop just taken raised while composing its sample
Failed == lastOp'.op = "iteration" /\ lastOp'.res = Raised

\* a pass that raised: logged; in infinite mode the loop goes on with the same
\* i, in finite mode the process exits with status 1
ErrorPolicy ==
    Failed =>
        /\ main'.logged
        /\ main.samples = 0 => (main'.exit = Nil /\ main'.i = main.i /\ main'.samples = 0)
        /\ main.samples > 0 => main'.exit = 1

\* C19: in infinite mode an exception raised while composing one sample is
\* logged and the loop goes on to the next iteration; in finite-sample mode
\* it is logged, ends the loop, and the process exits with a failure status.
C19_ErrorPolicy == [][ErrorPolicy]_vars

\* in infinite mode a pass raised and the loop is still running
C19_Witness ==
    /\ lastOp.op = "iteration"
    /\ lastOp.res = Raised
    /\ main.samples = 0
    /\ main.logged
    /\ main.exit = Nil

\* in finite mode a pass raised and the process has exited with status 1
C19_WitnessFinite ==
    /\ lastOp.op = "iteration"
    /\ lastOp.res = Raised
    /\ main.samples > 0
    /\ main.logged
    /\ main.exit = 1

----------------------------------------------------------------------------
(* The change handler (monitor.py 9-18) and SpecW, in which the observer    *)
(* delivers modification events to it.                                      *)

\* str(self.log_parser.log_file)
LogFile == "logs/content_log.txt"

\* event.src_path of the events the observer of the logs directory delivers
Paths == {LogFile, "logs/connection_log.txt", "logs"}

\* a handler that refreshes on every event
Targets_Any(src_path) == TRUE
\* monitor.py 14: event.src_path == str(self.log_parser.log_file)
Targets(src_path) == src_path = LogFile

\* what a call of _update_log_state from the handler can do: the outcomes of
\* IOs, or "raise": an exception leaves _update_log_state (the exists() of
\* parser.py 85 stands outside the try and lets a PermissionError through)
Outcomes == IOs \cup {"raise"}

\* a handler without the try: the exception leaves on_modified, unlogged, and
\* ends the observer's thread
Handled_Propagate(raised) ==
    [raised |-> raised, logged |-> FALSE, thread |-> IF raised THEN "dead" ELSE "idle"]
\* monitor.py 15-18: the except clause logs a warning and on_modified returns
Handled(raised) ==
    [raised |-> raised, logged |-> raised, thread |-> "idle"]

\* what lastOp keeps of one on_modified: the number of calls of
\* _update_log_state, how the handler ended, and whether the event before
\* this one ended in the except clause
Delivered(calls, h) ==
    [calls |-> calls, raised |-> h.raised, logged |-> h.logged,
     after_raise |-> lastOp.op = "on_modified" /\ lastOp.res.raised]

\* monitor.py 13-18: on_modified for one event, run by the observer's thread
OnModified ==
    \E src_path \in Paths, io \in Outcomes :
        /\ pc["watcher"] = "idle"
        /\ IF Targets(src_path)
           THEN /\ SetEngine(UpdateLogState(Engine, file, FALSE, now,
                                            IF io = "raise" THEN "open_fail" ELSE io))
                /\ lastOp' = Op("on_modified", src_path, Delivered(1, Handled(io = "raise")))
                /\ pc' = [pc EXCEPT !["watcher"] = Handled(io = "raise").thread]
           ELSE /\ UNCHANGED engineVars
                /\ lastOp' = Op("on_modified", src_path, Delivered(0, Handled(FALSE)))
                /\ UNCHANGED pc
        /\ UNCHANGED <<now, ticks, writes, file, loc, manifests, monitor, pending, main>>

NextW ==
    \/ AppendLine
    \/ Tick
    \/ OnModified

SpecW == Init /\ [][NextW]_vars

\* the step is the handling of one modification event
Handling == lastOp'.op = "on_modified"

\* the handler made one refresh for the log file's path and none otherwise
OneRefresh ==
    Handling =>
        IF lastOp'.arg = LogFile
        THEN /\ lastOp'.res.calls = 1
             /\ \E io \in IOs : Engine' = UpdateLogState(Engine, file, FALSE, now, io)
        ELSE /\ lastOp'.res.calls = 0
             /\ UNCHANGED engineVars

\* C20: the change handler triggers exactly one engine refresh for a
\* modification event whose path equals the log file's path, and none for a
\* modification event on any other path.
C20_OneRefresh == [][OneRefresh]_vars

\* an event on the log file was handled and the engine has read the new lines
C20_Witness ==
    /\ lastOp.op = "on_modified"
    /\ lastOp.arg = LogFile
    /\ lastOp.res.calls = 1
    /\ Len(file) > 0
    /\ last_pos = Len(file)

\* an event on another path was handled and the new lines are still unread
C20_WitnessOther ==
    /\ lastOp.op = "on_modified"
    /\ lastOp.arg # LogFile
    /\ lastOp.res.calls = 0
    /\ last_pos < Len(file)

\* the refresh the handler made raised
RefreshRaised == Handling /\ lastOp'.res.calls = 1 /\ lastOp'.res.raised

\* the handler logged the exception and returned to the observer's thread,
\* which goes on delivering events; the engine is as the refresh left it
CaughtAndLogged ==
    /\ (Handling /\ ~lastOp'.res.raised) => ~lastOp'.res.logged
    /\ Handling => pc'["watcher"] = "idle"
    /\ RefreshRaised => (lastOp'.res.logged /\ UNCHANGED engineVars)

\* C21: an exception raised by the refresh the change handler triggers is
\* caught and logged inside on_modified and never reaches the observer's
\* thread, so later modification events are still handled.
C21_CaughtAndLogged == [][CaughtAndLogged]_vars

\* a refresh raised inside the handler and the observer's thread lives on
C21_Witness ==
    /\ lastOp.op = "on_modified"
    /\ lastOp.res.calls = 1
    /\ lastOp.res.raised
    /\ lastOp.res.logged
    /\ pc["watcher"] = "idle"

\* the event after one whose refresh raised was handled and read the log
C21_WitnessLater ==
    /\ lastOp.op = "on_modified"
    /\ lastOp.res.after_raise
    /\ lastOp.res.calls = 1
    /\ ~lastOp.res.raised
    /\ Len(file) > 0
    /\ last_pos = Len(file)

----------------------------------------------------------------------------
(* The observer's lifecycle (monitor.py 21-47) and SpecO: the monitor is    *)
(* entered and left any number of times while the log grows; the observer   *)
(* delivers modification events while its thread runs.  The observer is a   *)
(* thread (watchdog's Observer derives from threading.Thread): start() on a *)
(* thread that was started before raises RuntimeError.                      *)

MaxCalls == 5       \* calls of the observer's methods in one behaviour

\* Thread.start: a thread can be started once
Startable(observer) == observer = "initial"

\* monitor.py 38-40: observer.start() is called when _started is false; when
\* it raises, the assignment of line 40 is not reached
Entered(m) ==
    IF m.started THEN m
    ELSE IF Startable(m.observer)
    THEN [started |-> TRUE, observer |-> "running", calls |-> Append(m.calls, "start")]
    ELSE [m EXCEPT !.calls = Append(@, "start")]

\* monitor.py 44-47
Exited(m) ==
    IF m.started
    THEN [started |-> FALSE, observer |-> "stopped",
          calls |-> m.calls \o <<"stop", "join">>]
    ELSE m

\* SteamMonitor.__enter__
MonitorEnter ==
    /\ Len(monitor.calls) < MaxCalls
    /\ monitor' = Entered(monitor)
    /\ lastOp' = Op("enter", Nil,
                    [raised |-> ~monitor.started /\ ~Startable(monitor.observer)])
    /\ UNCHANGED <<now, ticks, writes, file, engineVars, pc, loc, manifests, pending, main>>

\* SteamMonitor.__exit__
MonitorExit ==
    /\ Len(monitor.calls) < MaxCalls
    /\ monitor' = Exited(monitor)
    /\ lastOp' = Op("exit", Nil, [raised |-> FALSE])
    /\ UNCHANGED <<now, ticks, writes, file, engineVars, pc, loc, manifests, pending, main>>

\* the running observer hands a modification event to the handler
Deliver ==
    /\ monitor.observer = "running"
    /\ OnModified

NextO ==
    \/ AppendLine
    \/ MonitorEnter
    \/ MonitorExit
    \/ Deliver

SpecO == Init /\ [][NextO]_vars

RECURSIVE StartsAndStops(_)
\* the start and stop calls among calls, in order
StartsAndStops(calls) ==
    IF calls = << >> THEN << >>
    ELSE IF Head(calls) \in {"start", "stop"}
    THEN <<Head(calls)>> \o StartsAndStops(Tail(calls))
    ELSE StartsAndStops(Tail(calls))

\* start, stop, start, ... beginning with start
Alternate(ss) ==
    \A i \in 1 .. Len(ss) : ss[i] = (IF i % 2 = 1 THEN "start" ELSE "stop")

\* C22: constructing the monitor never starts the observer; the start and
\* stop calls made over any sequence of enter and exit calls alternate,
\* beginning with start, and _started is true exactly between a start and the
\* stop that follows it.
C22_Lifecycle ==
    LET ss == StartsAndStops(monitor.calls)
    IN  /\ Alternate(ss)
        /\ monitor.started <=> (ss # << >> /\ ss[Len(ss)] = "start")

----------------------------------------------------------------------------
(* parse_acf and its bounded retry (parser.py 42-56, 205-220), and SpecA,   *)
(* which calls it on a file whose state changes from attempt to attempt.    *)
(* The text of a manifest is a sequence of tokens: quoted strings and       *)
(* braces.                                                                  *)

retries == 3        \* parser.py 43: the default of _read_file_with_retry
MaxAttempts == 4    \* moments at which the file system answers an open

Quoted(text) == [quoted |-> TRUE, text |-> text]
Brace(text) == [quoted |-> FALSE, text |-> text]

\* str.strip() on the strings of the manifests read here
Strip(text) ==
    CASE text = " 4 " -> "4"
      [] text = "appid " -> "appid"
      [] OTHER -> text

RECURSIVE Tokenize(_, _)
\* parser.py 214-216: re.finditer over '"key" "value"': two quoted strings
\* (not empty) in a row make a pair, matches do not overlap, and a later pair
\* replaces an earlier one of the same key
Tokenize(text, data) ==
    IF Len(text) < 2 THEN data
    ELSE IF text[1].quoted /\ text[2].quoted
    THEN Tokenize(SubSeq(text, 3, Len(text)),
                  (Strip(text[1].text) :> Strip(text[2].text)) @@ data)
    ELSE Tokenize(Tail(text), data)

\* a retry that sleeps after every failed attempt
MayRetry_Always(attempt) == TRUE
\* parser.py 51: attempt < retries - 1
MayRetry(attempt) == attempt < retries - 1

RECURSIVE ReadFileWithRetry(_, _, _)
\* parser.py 46-56: fs[k] is what the k-th open-and-read does, an error or
\* the text read; attempt counts from 0 as range(retries) does
ReadFileWithRetry(fs, attempt, sleeps) ==
    IF attempt >= retries
    THEN [content |-> None, attempts |-> attempt, sleeps |-> sleeps]
    ELSE IF fs[attempt + 1].error = "none"
    THEN [content |-> fs[attempt + 1], attempts |-> attempt + 1, sleeps |-> sleeps]
    ELSE IF MayRetry(attempt)
    THEN ReadFileWithRetry(fs, attempt + 1, sleeps + 1)
    ELSE [content |-> None, attempts |-> attempt + 1, sleeps |-> sleeps]

\* parser.py 209-220 on what the retry gave
Parsed(r) ==
    IF r.content = None
    THEN [raised |-> "ACFParseError", data |-> << >>, attempts |-> r.attempts,
          sleeps |-> r.sleeps]
    ELSE [raised |-> "", data |-> Tokenize(r.content.text, << >>),
          attempts |-> r.attempts, sleeps |-> r.sleeps]

\* parser.py 205-220
ParseAcf(fs) == Parsed(ReadFileWithRetry(fs, 0, 0))

\* the texts of the manifest: as installed, and as rewritten by the client
Texts ==
    { <<Quoted("AppState"), Brace("{"), Quoted("appid "), Quoted("1"),
        Quoted("StateFlags"), Quoted(" 4 "), Brace("}")>>,
      <<Quoted("AppState"), Brace("{"), Quoted("appid"), Quoted("1"),
        Quoted("StateFlags"), Quoted("1026"), Quoted("StateFlags"), Quoted("4"),
        Brace("}")>> }

\* what one open-and-read does: the file is locked by the client, it does
\* not exist, or it is read
Reads ==
    { [error |-> e, text |-> << >>] : e \in {"PermissionError", "FileNotFoundError"} }
    \cup { [error |-> "none", text |-> t] : t \in Texts }

\* one call of parse_acf
ParseAcfCall ==
    \E fs \in [1 .. MaxAttempts -> Reads] :
        /\ lastOp' = Op("parse_acf", fs, ParseAcf(fs))
        /\ UNCHANGED <<now, ticks, writes, file, engineVars, pc, loc, manifests, monitor,
                       main, pending>>

NextA == ParseAcfCall

SpecA == Init /\ [][NextA]_vars

ParseCalled == lastOp.op = "parse_acf"

\* the attempts that failed among the first n
Failing(fs, n) == {k \in 1 .. n : fs[k].error # "none"}

\* C23: parse_acf attempts the read at most 3 times, sleeps only after a
\* failed attempt that is not the last (at most twice), returns the pairs of
\* the first successful read without further attempts, and raises
\* ACFParseError exactly when all 3 attempts fail (a missing file included).
C23_BoundedRetry ==
    ParseCalled =>
        LET fs == lastOp.arg
            r  == lastOp.res
        IN  /\ r.attempts \in 1 .. 3
            /\ r.sleeps = Cardinality(Failing(fs, r.attempts) \ {3})
            /\ r.sleeps <= 2
            /\ Failing(fs, r.attempts - 1) = 1 .. (r.attempts - 1)
            /\ (r.raised = "ACFParseError") <=> (Failing(fs, 3) = 1 .. 3)
            /\ r.raised = "" =>
                  /\ fs[r.attempts].error = "none"
                  /\ r.data = Tokenize(fs[r.attempts].text, << >>)
                  /\ r.data["appid"] = "1" /\ r.data["StateFlags"] = "4"
                  /\ DOMAIN r.data = {"appid", "StateFlags"}

\* the file was locked twice and read at the third attempt
C23_Witness ==
    /\ ParseCalled
    /\ lastOp.res.attempts = 3
    /\ lastOp.res.sleeps = 2
    /\ lastOp.res.raised = ""
    /\ lastOp.arg[4].error = "none"
    /\ lastOp.arg[4].text # lastOp.arg[3].text

\* the file did not exist at any of the three attempts
C23_WitnessMissing ==
    /\ ParseCalled
    /\ \A k \in 1 .. 3 : lastOp.arg[k].error = "FileNotFoundError"
    /\ lastOp.arg[4].error = "none"
    /\ lastOp.res.raised = "ACFParseError"
    /\ lastOp.res.sleeps = 2

----------------------------------------------------------------------------
(* Properties of one refresh and of two in a row (checked under Spec) *)

\* the clock at a later refresh
Later == {now} \cup {now + d : d \in TickSteps}

\* a refresh of the file as it is, at a later time and whatever the file
\* system does, leaves the engine as it is
RefreshChangesNothing ==
    \A io \in IOs, t \in Later : UpdateLogState(Engine, file, FALSE, t, io) = Engine

\* two refreshes in a row, the first of which read the file
SecondOfTwo == lastOp.op = "refresh" /\ lastOp.ok /\ lastOp'.op = "refresh"

\* C24 as stated: when the log file has not changed between two consecutive
\* refreshes, the second leaves the cursor and the indexes as the first left
\* them.
C24_AsStated == lastOp.op = "refresh" => RefreshChangesNothing

\* C24, amended: when the first of two refreshes read the file and the file
\* has not changed since, the second refresh, at the same or a later time and
\* whether or not it can read the file, leaves the cursor, latest_rate,
\* recent_events, depot_to_app and rate_entries as the first left them.
C24_Idempotent ==
    /\ []((lastOp.op = "refresh" /\ lastOp.ok) => RefreshChangesNothing)
    /\ [][SecondOfTwo => UNCHANGED engineVars]_vars

\* a refresh has read a log of two lines that left rate entries
C24_Witness ==
    /\ lastOp.op = "refresh" /\ lastOp.ok
    /\ Len(file) = 2
    /\ last_pos = 2
    /\ Len(rate_entries) = 2

\* C25: a refresh that cannot read the log (the file is absent, or opening
\* or reading it raises an I/O error, the truncation branch included) leaves
\* the cursor and the indexes as they were.
C25_FailedRefreshKeepsState ==
    [][(lastOp'.op = "refresh" /\ ~lastOp'.ok) => UNCHANGED engineVars]_vars

\* C27: across log appends, truncations and refreshes the cursor never
\* decreases from one refresh to the next, unless that refresh found the file
\* shorter than the cursor, in which case it restarts from 0 (and ends at the
\* size of the file it re-read, or at 0 when the read failed).
C27_CursorMonotonic ==
    [][\/ last_pos' >= last_pos
       \/ /\ Truncated(Len(file), last_pos)
          /\ last_pos' \in {0, Len(file')}]_vars

\* a refresh found the log shorter than the cursor and the cursor fell to the
\* size of the new log
C27_Witness ==
    /\ lastOp.op = "refresh" /\ lastOp.trunc /\ lastOp.ok
    /\ writes = MaxWrites
    /\ Len(file) = 1
    /\ last_pos = 1

\* the cursor advanced over appended lines
C27_WitnessGrowth ==
    /\ lastOp.op = "refresh" /\ ~lastOp.trunc /\ lastOp.ok
    /\ Len(file) = MaxWrites
    /\ last_pos = MaxWrites

----------------------------------------------------------------------------
(* Properties of interleaved refreshes (checked under SpecC) *)

\* the log has only grown: every write appended one line
OnlyAppended == Len(file) = writes

RECURSIVE EventCount(_)
\* the events held in recent_events, over all apps
EventCount(re) ==
    IF re = << >> THEN 0 ELSE Len(Head(re).evs) + EventCount(Tail(re))

\* C28: when the handler's refresh and a query's refresh interleave, each
\* line of the log is applied to the indexes at most once: no rate line adds
\* two entries to rate_entries and no lifecycle line adds two events to
\* recent_events.
C28_AppliedOnce ==
    OnlyAppended =>
        /\ Len(rate_entries) <= Cardinality({k \in DOMAIN file : file[k].rate # Nil})
        /\ EventCount(recent_events) <= Cardinality({k \in DOMAIN file : file[k].pats # {}})

----------------------------------------------------------------------------
(* SpecI: incremental reading with the clock held at T0.  The log only      *)
(* grows; it receives rate lines in several units, a depot line, a rate     *)
(* line attributed through the depot, a line stamped more than 180 s ago    *)
(* that is a rate line and a depot line at once, and a rate line written    *)
(* in two chunks.                                                           *)

\* _LINE_RE (parser.py 11-14, re.IGNORECASE): the units it accepts
UnitRe(unit) == Lower(unit) \in {"kb/s", "mb/s", "mbps"}

\* "[ts] Download rate: <value> <unit> AppID <a>", as _LINE_RE sees it
LineRe(ts, value, unit, a) ==
    IF UnitRe(unit) THEN Line(ts, value, unit, a, Nil, << >>, {})
    ELSE Line(ts, Nil, "", a, Nil, << >>, {})

\* "[ts] Download rate: 3 MB/s Downloading 5 chunks from depot <d> AppID <a>"
RateDepotLine(ts, d, a) == Line(ts, 3, "MB/s", a, d, <<d, a>>, {7})

\* the line the client writes in two chunks
Chunked(t) == LineRe(t, 2, "Mb/s", 1)

IncrementalLines(t) ==
    { LineRe(t, 1, "KB/s", 1), LineRe(t, 2, "Mb/s", 1), LineRe(t - 1, 3, "MBPS", 1),
      LineRe(t, 4, "GB/s", 1),
      DepotLine(t, 7, 1), DepotRateLine(t, 7),
      RateDepotLine(t - MAX_AGE_SEC - 1, 7, 2) }

\* the last piece of the file is a front chunk, its line is not complete
Incomplete(content) == content # << >> /\ Part(content[Len(content)]) = "front"

\* the client appends a whole line
AppendWhole ==
    /\ ~Incomplete(file)
    /\ \E l \in IncrementalLines(now) : Write(l)

\* the client appends the front chunk of a line
AppendFront ==
    /\ ~Incomplete(file)
    /\ Write(Front(Chunked(now)))

\* the client appends the rest of the line it began
AppendBack ==
    /\ Incomplete(file)
    /\ writes' = writes + 1
    /\ file' = Append(file, Back(file[Len(file)].of))
    /\ lastOp' = Env
    /\ UNCHANGED <<now, ticks, engineVars, pc, loc, manifests, monitor, main, pending>>

NextI ==
    \/ AppendWhole
    \/ AppendFront
    \/ AppendBack
    \/ Refresh

SpecI == Init /\ [][NextI]_vars

\* the lines of the whole file
Whole == LinesFrom(file, 0)

\* a refresh has just read the file to its end, and the file ends in a
\* complete line
ReadToEnd ==
    /\ lastOp.op = "refresh" /\ lastOp.ok
    /\ last_pos = Len(file)
    /\ ~Incomplete(file)

\* the accepted rate lines of the file
Accepted == {k \in DOMAIN Whole : Whole[k].rate # Nil /\ ~RateTooOld(now, Whole[k].ts)}

\* value x 1024, value x 1024^2, value x 1,000,000 / 8
Converted(value, unit) ==
    CASE unit \in {"KB/s", "kb/s"} -> value * 1024
      [] unit \in {"MB/s", "Mb/s"} -> value * 1048576
      [] unit \in {"Mbps", "MBPS"} -> value * 125000

\* C26: for every accepted rate line with value v the stored throughput is
\* v*1024 for KB/s, v*1024*1024 for MB/s and v*1000000/8 for Mbps, the unit
\* matched without regard to case; no other unit produces a sample.
C26_UnitConversion ==
    /\ \A k \in Accepted : Lower(Whole[k].unit) \in {"kb/s", "mb/s", "mbps"}
    /\ latest_rate # None =>
          \E k \in Accepted :
              /\ Whole[k].ts = latest_rate.ts
              /\ latest_rate.bps = Converted(Whole[k].rate, Whole[k].unit)
    /\ (ReadToEnd /\ Len(file) = 1 /\ Part(file[1]) = "line" /\ Accepted = {1}) =>
          /\ latest_rate # None
          /\ latest_rate.bps = Converted(file[1].rate, file[1].unit)
    /\ (ReadToEnd /\ Accepted = {}) => latest_rate = None

\* a line in MBPS was read and converted
C26_Witness ==
    /\ ReadToEnd
    /\ Len(file) = 1
    /\ Part(file[1]) = "line"
    /\ file[1].unit = "MBPS"
    /\ latest_rate # None
    /\ latest_rate.bps = 375000

\* a line in GB/s was read and left no sample
C26_WitnessOther ==
    /\ ReadToEnd
    /\ file = <<LineRe(now, 4, "GB/s", 1)>>
    /\ latest_rate = None

\* C29: without truncation and with the clock fixed, after any appends and
\* refreshes the indexes are those a single full load of the final file
\* builds; a line written in two chunks with a refresh in between is
\* recognised once it is complete.
C29_SameAsFullLoad == ReadToEnd => Engine = FreshLoad(file, now)

\* the same for logs whose lines were all written whole
C29_WholeLinesOnly ==
    (ReadToEnd /\ \A k \in DOMAIN file : Part(file[k]) = "line")
        => Engine = FreshLoad(file, now)

\* C30: whether a line updates the depot mapping does not depend on the rate
\* matcher: a line that matches the depot pattern updates depot_to_app
\* whatever its age, also when it is a rate line rejected as older than 180 s.
C30_DepotIndependent ==
    ReadToEnd =>
        \A k \in DOMAIN Whole :
            Whole[k].dpat # << >> => Whole[k].dpat[1] \in DOMAIN depot_to_app

----------------------------------------------------------------------------
(* SpecP: the two queries get_status and the resolver put to the engine.    *)
(* The log holds pause, start, network and rate lines of one app, each      *)
(* stamped with the second it is written in, so the log is in chronological *)
(* order; it only grows.                                                    *)

PLines(t) == {PauseLine(t, 1), StartLine(t, 1), NetworkLine(t, 1), RateLine(t, 1)}

AppendLineP == \E l \in PLines(now) : Write(l)

NextP ==
    \/ AppendLineP
    \/ Tick
    \/ GetRecentPauseInfo
    \/ GetMostRecentActiveDownload

SpecP == Init /\ [][NextP]_vars

(* Properties of get_recent_pause_info (checked under SpecP and Spec) *)

\* C31: whenever get_most_recent_active_download returns an app,
\* get_recent_pause_info of that app on the same engine state returns none,
\* also when an older pause precedes newer rate lines and when a pause and a
\* start carry the same timestamp.
C31_ActiveNotPaused ==
    (Answered /\ lastOp.res.app # Nil) =>
        RecentPauseInfo(Engine, lastOp.res.app).res = None

\* app a has a pause event newer than every start and network event it has
PauseNewest(a) ==
    \E j \in 1 .. Len(EventsOf(a)) :
        /\ EventsOf(a)[j].etype = "pause"
        /\ \A k \in 1 .. Len(EventsOf(a)) :
              EventsOf(a)[k].etype # "pause" => EventsOf(a)[k].ts < EventsOf(a)[j].ts

PauseAsked == lastOp.op = "get_recent_pause_info"

\* C32: get_recent_pause_info(app) returns a pause result exactly when the
\* app has a pause event strictly newer than every start and network event
\* of that app, and none otherwise.
C32_PauseStrictlyNewest ==
    PauseAsked => (lastOp.res # None <=> PauseNewest(lastOp.arg))

\* the stored events of app a are in non-decreasing order of timestamp
Chronological(a) ==
    \A j, k \in 1 .. Len(EventsOf(a)) :
        j < k => EventsOf(a)[j].ts <= EventsOf(a)[k].ts

\* C33: in every reachable state, after any sequence of refreshes and
\* queries, each app's stored event list is in chronological order.
C33_Chronological == \A a \in Apps : Chronological(a)

\* the latest call was a refresh on its own that read the file
Refreshed == lastOp.op = "refresh" /\ lastOp.ok

\* C34: a prune pass runs in every refresh: after any refresh completes,
\* also one that finds no new lines, rate_entries and every per-app event
\* list hold no entry older than 3600 s at that refresh, and recent_events
\* holds no app with an empty list.
C34_PrunedByEveryRefresh ==
    Refreshed =>
        /\ \A i \in 1 .. Len(rate_entries) : now - rate_entries[i].ts <= PRUNE_AGE_SEC
        /\ \A k \in 1 .. Len(recent_events) :
              /\ recent_events[k].evs # << >>
              /\ \A j \in 1 .. Len(recent_events[k].evs) :
                    now - recent_events[k].evs[j].ts <= PRUNE_AGE_SEC

----------------------------------------------------------------------------
(* SpecG: the three matchers of _update_log_state.  The clock stands still  *)
(* and the log only grows, by whole lines: rate lines of one second with    *)
(* different values, a rate line of the second before, one stamped more     *)
(* than 180 s ago, depot lines, rate lines that name a depot, an app and a  *)
(* depot, or neither, and a line that a pause pattern and a start pattern   *)
(* both match.                                                              *)

\* "[ts] Download rate: 5 KB/s depot <d> AppID <a>"
RateAppDepotLine(ts, d, a) == Line(ts, 5, "KB/s", a, d, << >>, {})
\* "[ts] Download rate: 4 MB/s"
BareRateLine(ts) == Line(ts, 4, "MB/s", Nil, Nil, << >>, {})
\* "[ts] AppID <a> App update changed : Running Update,Downloading,Suspended":
\* PAUSE_PATTERNS[1] and START_PATTERNS[1] both match
PauseStartLine(ts, a) == Line(ts, Nil, "", a, Nil, << >>, {2, 6})

MatcherLines(t) ==
    { LineRe(t, 1, "KB/s", 1), LineRe(t, 2, "MB/s", 2), LineRe(t - 1, 3, "MB/s", 1),
      LineRe(t - MAX_AGE_SEC - 1, 9, "MB/s", 1),
      DepotLine(t, 7, 1), DepotLine(t, 7, 2), DepotRateLine(t, 7),
      RateAppDepotLine(t, 7, 2), BareRateLine(t), PauseStartLine(t, 1) }

AppendLineG == \E l \in MatcherLines(now) : Write(l)

NextG ==
    \/ AppendLineG
    \/ Refresh

SpecG == Init /\ [][NextG]_vars

(* Properties of the matchers (checked under SpecG) *)

\* the lines the refreshes have handed to the matchers so far
Processed == SubSeq(file, 1, last_pos)

\* the rate lines among them that were at most 180 s old
AcceptedRates ==
    {k \in DOMAIN Processed :
        Processed[k].rate # Nil /\ now - Processed[k].ts <= MAX_AGE_SEC}

\* the i-th smallest element of a set of positions
Nth(S, i) == CHOOSE k \in S : Cardinality({j \in S : j <= k}) = i

\* the sample of the rate line at position k
SampleOf(k) ==
    [ts |-> Processed[k].ts, bps |-> Converted(Processed[k].rate, Processed[k].unit)]

\* C35: latest_rate always holds the accepted rate sample with the greatest
\* timestamp among all accepted rate lines, whatever the order of the lines
\* in the file; of accepted lines with the same timestamp the one processed
\* first is kept.
C35_GreatestTimestamp ==
    IF AcceptedRates = {} THEN latest_rate = None
    ELSE \E k \in AcceptedRates :
            /\ \A j \in AcceptedRates :
                  \/ Processed[j].ts < Processed[k].ts
                  \/ Processed[j].ts = Processed[k].ts /\ k <= j
            /\ latest_rate = SampleOf(k)

\* the held sample is that of the first line, a later line of the same
\* second carries another value, and a line of an earlier second follows
C35_Witness ==
    /\ Refreshed
    /\ 1 \in AcceptedRates /\ latest_rate = SampleOf(1)
    /\ \E j \in AcceptedRates :
          /\ j > 1
          /\ Processed[j].ts = Processed[1].ts
          /\ SampleOf(j) # SampleOf(1)
    /\ \E j \in AcceptedRates : j > 1 /\ Processed[j].ts < Processed[1].ts

\* the held sample is that of a line that follows a line of an earlier second
C35_WitnessNewer ==
    /\ Refreshed
    /\ \E k \in AcceptedRates :
          /\ latest_rate = SampleOf(k)
          /\ \E j \in AcceptedRates : j < k /\ Processed[j].ts < Processed[k].ts

\* the app the depot lines before position k map the depot of line k to
MappedBefore(k) ==
    LET before == {j \in 1 .. k - 1 :
                      /\ Processed[j].dpat # << >>
                      /\ Processed[j].dpat[1] = Processed[k].depot}
    IN  IF before = {} THEN Nil
        ELSE Processed[CHOOSE j \in before : \A i \in before : i <= j].dpat[2]

\* the app a rate line belongs to: its AppID token, else its depot's app
Owner(k) ==
    IF Processed[k].app # Nil THEN Processed[k].app
    ELSE IF Processed[k].depot # Nil THEN MappedBefore(k)
    ELSE Nil

Attributed == {k \in AcceptedRates : Owner(k) # Nil}

\* C36: an accepted rate line is attributed to the first AppID token on the
\* line if there is one, otherwise to the app that the depot lines before it
\* map its first depot token to; otherwise it is unattributed: latest_rate
\* is still updated and no entry is added to rate_entries.
C36_Attribution ==
    /\ Len(rate_entries) = Cardinality(Attributed)
    /\ \A i \in 1 .. Len(rate_entries) :
          LET k == Nth(Attributed, i)
          IN  rate_entries[i] =
                  [ts |-> Processed[k].ts, app |-> Owner(k), rate |-> Processed[k].rate]
    /\ \A k \in AcceptedRates \ Attributed :
          latest_rate # None /\ latest_rate.ts >= Processed[k].ts

\* a rate line that names a depot came before the depot's line and left no
\* entry, the same line after the depot's line is attributed to the depot's
\* app
C36_Witness ==
    /\ Refreshed
    /\ \E k \in AcceptedRates \ Attributed : Processed[k].depot # Nil
    /\ \E k \in Attributed : Processed[k].app = Nil
    /\ Len(rate_entries) = 1

\* a rate line that names an app and a depot which is mapped to another app
\* belongs to the app it names
C36_WitnessAppFirst ==
    /\ Refreshed
    /\ \E k \in Attributed :
          /\ Processed[k].app # Nil /\ Processed[k].depot # Nil
          /\ MappedBefore(k) # Nil /\ MappedBefore(k) # Processed[k].app
          /\ rate_entries[Len(rate_entries)].app = Processed[k].app

\* the only rate line names neither an app nor a depot: it is the held
\* sample and no entry was added
C36_WitnessUnattributed ==
    /\ Refreshed
    /\ AcceptedRates # {} /\ Attributed = {}
    /\ latest_rate # None /\ rate_entries = << >>

\* the lines that match a lifecycle pattern for app a
Lifecycle(a) ==
    {k \in DOMAIN Processed :
        /\ Processed[k].app = a
        /\ Processed[k].pats # {}
        /\ now - Processed[k].ts <= PRUNE_AGE_SEC}

\* pause before start before network
KindOf(pats) ==
    IF pats \cap PAUSE_PATTERNS # {} THEN "pause"
    ELSE IF pats \cap START_PATTERNS # {} THEN "start"
    ELSE "network"

\* C37: lifecycle classification is first-match-wins over pause patterns,
\* then start patterns, then network patterns: every line yields at most one
\* event, and a line that a pause pattern and a start pattern both match
\* yields exactly one event, of kind pause.
C37_FirstMatchWins ==
    \A a \in Apps :
        /\ Len(EventsOf(a)) = Cardinality(Lifecycle(a))
        /\ \A i \in 1 .. Len(EventsOf(a)) :
              LET k == Nth(Lifecycle(a), i)
              IN  EventsOf(a)[i] =
                      [ts |-> Processed[k].ts, etype |-> KindOf(Processed[k].pats)]

\* a line that a pause pattern and a start pattern match was processed and
\* left one pause event
C37_Witness ==
    /\ Refreshed
    /\ \E k \in Lifecycle(1) :
          /\ Processed[k].pats \cap PAUSE_PATTERNS # {}
          /\ Processed[k].pats \cap START_PATTERNS # {}
    /\ \E i \in 1 .. Len(EventsOf(1)) : EventsOf(1)[i].etype = "pause"
    /\ \E i \in 1 .. Len(EventsOf(1)) : EventsOf(1)[i].etype = "start"

----------------------------------------------------------------------------
(* Replacement of the log without shrinking (checked under Spec) *)

\* C38: if the log is replaced by different content whose size is at least
\* the stored cursor, then after the next refresh the indexes reflect only
\* the content of the current file: a refresh that read the file and did not
\* find it shorter than the cursor leaves nothing that the file does not hold.
C38_ReflectsCurrentFile ==
    (Refreshed /\ ~lastOp.trunc) => OnlyFrom(file)

----------------------------------------------------------------------------
(* The shape of the samples of get_current_sample (checked under SpecL,   *)
(* whose loop calls it over manifests of every status)                      *)

\* get_current_sample has just returned a sample to the loop
SampleReturned == Rendered

\* C39: every sample of get_current_sample whose status is downloading has
\* a speed above 0 and a game attached; every sample without a game has
\* status idle and speed 0; unpacking and paused never occur without a game.
C39_SampleShape ==
    SampleReturned =>
        /\ lastOp.res.status = "downloading" =>
              (lastOp.res.speed > 0 /\ lastOp.res.game # NoGame)
        /\ lastOp.res.game = NoGame =>
              (lastOp.res.status = "idle" /\ lastOp.res.speed = 0)
        /\ lastOp.res.status \in {"unpacking", "paused"} => lastOp.res.game # NoGame

\* a downloading sample with its game and the speed the engine measured
C39_Witness ==
    /\ SampleReturned
    /\ lastOp.res.status = "downloading"
    /\ lastOp.res.game # NoGame
    /\ lastOp.res.speed > 0 /\ lastOp.res.speed = lastOp.arg.speed

\* a sample without a game, taken while the engine measured a speed
C39_WitnessNoGame ==
    /\ SampleReturned
    /\ lastOp.res.game = NoGame
    /\ lastOp.arg.speed > 0
    /\ lastOp.res.speed = 0

\* a paused sample of a game with no measured speed
C39_WitnessPaused ==
    /\ SampleReturned
    /\ lastOp.res.status = "paused"
    /\ lastOp.res.game # NoGame
    /\ lastOp.res.speed = 0

\* an unpacking sample of a game
C39_WitnessUnpacking ==
    /\ SampleReturned
    /\ lastOp.res.status = "unpacking"
    /\ lastOp.res.game # NoGame

----------------------------------------------------------------------------
(* How the query loop ends (checked under SpecL) *)

\* C40: in finite-sample mode with samples = N > 0 and no exception the loop
\* produces exactly N samples and then ends without sleeping after the last
\* one; with samples = 0, which --daemon forces whatever --samples says, the
\* loop never ends on its own.
C40_LoopEnds ==
    /\ main.daemon => main.samples = 0
    /\ main.samples = 0 => (main.exit = Nil /\ While(main.samples, main.i))
    /\ main.exit = 0 => (main.samples > 0 /\ main.i = main.samples /\ ~main.slept)
    /\ (main.samples > 0 /\ main.exit = Nil) =>
          /\ main.i < main.samples
          /\ (main.i > 0 /\ ~main.logged) => main.slept

\* the loop took MaxSamples samples, slept after all but the last and ended
C40_Witness ==
    /\ main.samples = MaxSamples
    /\ main.i = MaxSamples
    /\ main.exit = 0
    /\ ~main.slept
    /\ Rendered

\* with --daemon the loop is still running after more samples than any
\* finite run of the model takes, and after a pass that raised
C40_WitnessDaemon ==
    /\ main.daemon
    /\ main.i = MaxSamples + 1
    /\ main.exit = Nil
    /\ main.slept

====
